---- MODULE Spec2Model ----
(***************************************************************************)
(* Model of the client-side canvas card generator (ClientCanvasGenerator)  *)
(* and of the callers that orchestrate several card variations.            *)
(*                                                                         *)
(* Geometry is exact: every length is an integer number of 1/Scale pixels, *)
(* so that the ratios of the source (0.80, 0.20, 0.10, 0.75, 0.25, 1.2,    *)
(* halves) are computed without rounding.  A rectangle produced by an      *)
(* aspect-ratio fit carries its own denominator `den`: its coordinates are *)
(* in units of 1/(Scale*den) pixels.                                       *)
(***************************************************************************)
EXTENDS Integers, Sequences, FiniteSets, TLC

VARIABLES
  CARD_DIMENSIONS,  \* [width, height, safeMargin] in pixels
  debug,            \* process.env.NODE_ENV === 'development'
  playerData,       \* [Renders -> CardPlayerData] handed to the constructor
  pc,               \* [Renders -> position of the render in generateCard]
  frontCanvas,      \* [Renders -> surface] this.frontCanvas with this.frontCtx
  backCanvas,       \* [Renders -> surface] this.backCanvas with this.backCtx
  trace,            \* [Renders -> sequence of <<"begin"|"end", step>>]
  playerStats,      \* [Renders -> the playerStats local of generateCard]
  result,           \* [Renders -> NoResult or ClientCardResult]
  debugCanvases,    \* window.debugCanvases: 0 (unset) or the owning render
  debugDom,         \* number of snapshots appended to #debug-canvases
  random,           \* [Renders -> the Math.random() tapes the render has drawn]
  batch,            \* the generateCards call of ClientCanvasCardGenerator
  call,             \* the latest call of a helper: its arguments and its result
  serverAction      \* the server action in progress: input, position, effects

vars == <<CARD_DIMENSIONS, debug, playerData, pc, frontCanvas, backCanvas,
          trace, playerStats, result, debugCanvases, debugDom, random, batch,
          call, serverAction>>

-----------------------------------------------------------------------------
(* Bounds of the model *)

MaxSide == 3
RandDen == 2
RandFine == 1000
MaxWidthUnits == 10
MaxHeightUnits == 14
MaxMarginUnits == 2

\* the generators that may exist: one per style of a batch
Renders == 1..3

-----------------------------------------------------------------------------
(* Exact arithmetic *)

Scale == 16 * 25

Px(n) == n * Scale

Frac(x, num, den) == (x * num) \div den

Min(a, b) == IF a <= b THEN a ELSE b

Max(a, b) == IF a >= b THEN a ELSE b

-----------------------------------------------------------------------------
(* CARD_DIMENSIONS and the layout every layer derives from it *)

CardWidth == 750
CardHeight == 1050
SafeMargin == 75

StandardDimensions ==
  [width |-> CardWidth, height |-> CardHeight, safeMargin |-> SafeMargin]

Box(x, y, w, h) == [x |-> x, y |-> y, w |-> w, h |-> h]

InnerBox(d) ==
  Box(Px(d.safeMargin), Px(d.safeMargin),
      Px(d.width - 2 * d.safeMargin), Px(d.height - 2 * d.safeMargin))

ContentHeightForContainers(d) == InnerBox(d).h - Px(d.safeMargin)

\* the image container taking 80% of the whole inset height
ImageContainerBoxOfInset(d) ==
  Box(InnerBox(d).x, InnerBox(d).y, InnerBox(d).w, Frac(InnerBox(d).h, 80, 100))

\* renderPlayerImageContainer: top 80% of the content height
ImageContainerBox(d) ==
  Box(InnerBox(d).x, InnerBox(d).y, InnerBox(d).w,
      Frac(ContentHeightForContainers(d), 80, 100))

\* renderPlayerInformationContainer: 75% of the width left after the gutter
InfoContainerBox(d) ==
  LET inner == InnerBox(d)
      content == ContentHeightForContainers(d)
      marginBetweenContainers == Frac(inner.w, 10, 100)
      widthForBothContainers == inner.w - marginBetweenContainers
  IN  Box(inner.x,
          inner.y + Frac(content, 80, 100) + Px(d.safeMargin),
          Frac(widthForBothContainers, 75, 100),
          Frac(content, 20, 100))

\* renderPlayerLogoContainer: 25% of that width, right of the gutter
LogoContainerBox(d) ==
  LET inner == InnerBox(d)
      content == ContentHeightForContainers(d)
      marginBetweenContainers == Frac(inner.w, 10, 100)
      widthForBothContainers == inner.w - marginBetweenContainers
      playerInfoContainerActualWidth == Frac(widthForBothContainers, 75, 100)
  IN  Box(inner.x + playerInfoContainerActualWidth + marginBetweenContainers,
          inner.y + Frac(content, 80, 100) + Px(d.safeMargin),
          Frac(widthForBothContainers, 25, 100),
          Frac(content, 20, 100))

Circle(cx, cy, r) == [cx |-> cx, cy |-> cy, r |-> r]

\* the circle painted by renderPlayerLogoContainer
LogoContainerCircle(d) ==
  LET b == LogoContainerBox(d)
  IN  Circle(b.x + b.w \div 2, b.y + b.h \div 2,
             Frac(Min(b.w, b.h) \div 2 - Px(4), 12, 10))

\* the target box renderPlayerImage recomputes for the photo
PlayerImageTargetBox(d) ==
  LET safeMargin == Px(d.safeMargin)
      innerBoxWidth == Px(d.width) - 2 * safeMargin
      innerBoxHeight == Px(d.height) - 2 * safeMargin
      contentHeightForContainers == innerBoxHeight - safeMargin
  IN  Box(safeMargin, safeMargin, innerBoxWidth,
          Frac(contentHeightForContainers, 80, 100))

\* the logo container renderTeamInformation recomputes, and its clip circle
TeamLogoBox(d) ==
  LET safeMargin == Px(d.safeMargin)
      innerBoxWidth == Px(d.width) - 2 * safeMargin
      innerBoxHeight == Px(d.height) - 2 * safeMargin
      contentHeightForContainers == innerBoxHeight - safeMargin
      playerImageContainerActualHeight == Frac(contentHeightForContainers, 80, 100)
      marginBetweenContainers == Frac(innerBoxWidth, 10, 100)
      widthForBothContainers == innerBoxWidth - marginBetweenContainers
      playerInfoContainerActualWidth == Frac(widthForBothContainers, 75, 100)
  IN  Box(safeMargin + playerInfoContainerActualWidth + marginBetweenContainers,
          safeMargin + playerImageContainerActualHeight + safeMargin,
          Frac(widthForBothContainers, 25, 100),
          Frac(contentHeightForContainers, 20, 100))

TeamLogoCircle(d) ==
  LET b == TeamLogoBox(d)
  IN  Circle(b.x + b.w \div 2, b.y + b.h \div 2, Min(b.w, b.h) \div 2 - Px(4))

\* the info container renderPlayerInformation recomputes for the text
InfoTextBox(d) ==
  LET safeMargin == Px(d.safeMargin)
      innerBoxWidth == Px(d.width) - 2 * safeMargin
      innerBoxHeight == Px(d.height) - 2 * safeMargin
      contentHeightForContainers == innerBoxHeight - safeMargin
      playerImageContainerActualHeight == Frac(contentHeightForContainers, 80, 100)
      marginBetweenInfoAndLogo == Frac(innerBoxWidth, 10, 100)
      widthForBothInfoAndLogoContainers == innerBoxWidth - marginBetweenInfoAndLogo
  IN  Box(safeMargin,
          safeMargin + playerImageContainerActualHeight + safeMargin,
          Frac(widthForBothInfoAndLogoContainers, 75, 100),
          Frac(contentHeightForContainers, 20, 100))

-----------------------------------------------------------------------------
(* A drawing surface: a canvas, the state of its 2D context, what was painted *)

DrawingState(ctx) ==
  [fillStyle |-> ctx.fillStyle, strokeStyle |-> ctx.strokeStyle,
   lineWidth |-> ctx.lineWidth, globalAlpha |-> ctx.globalAlpha,
   globalCompositeOperation |-> ctx.globalCompositeOperation,
   font |-> ctx.font, textAlign |-> ctx.textAlign,
   textBaseline |-> ctx.textBaseline, clip |-> ctx.clip]

\* a fresh CanvasRenderingContext2D; globalAlpha in percent, font size in 1/Scale px
DefaultContext ==
  [fillStyle |-> "#000000", strokeStyle |-> "#000000", lineWidth |-> 1,
   globalAlpha |-> 100, globalCompositeOperation |-> "source-over",
   font |-> Px(10), textAlign |-> "start", textBaseline |-> "alphabetic",
   clip |-> "none", stack |-> <<>>]

NoCanvas == [width |-> 0, height |-> 0, ctx |-> DefaultContext, ops |-> <<>>]

CreateCanvas(d) ==
  [width |-> d.width, height |-> d.height, ctx |-> DefaultContext, ops |-> <<>>]

SetCtx(c, field, value) == [c EXCEPT !.ctx[field] = value]

\* ctx.save(): push the drawing state
Saved(ctx) == [ctx EXCEPT !.stack = Append(@, DrawingState(ctx))]

Save(c) == [c EXCEPT !.ctx = Saved(@)]

\* a restore that pops nothing
Unrestored(ctx) == ctx

\* ctx.restore(): pop it; a restore without a save does nothing
Restored(ctx) ==
  IF ctx.stack = <<>> THEN ctx
  ELSE LET top == ctx.stack[Len(ctx.stack)]
       IN  [fillStyle |-> top.fillStyle, strokeStyle |-> top.strokeStyle,
            lineWidth |-> top.lineWidth, globalAlpha |-> top.globalAlpha,
            globalCompositeOperation |-> top.globalCompositeOperation,
            font |-> top.font, textAlign |-> top.textAlign,
            textBaseline |-> top.textBaseline, clip |-> top.clip,
            stack |-> SubSeq(ctx.stack, 1, Len(ctx.stack) - 1)]

Restore(c) == [c EXCEPT !.ctx = Restored(@)]

Rect(b) == [x |-> b.x, y |-> b.y, w |-> b.w, h |-> b.h, den |-> 1]

Disc(k) == [x |-> k.cx, y |-> k.cy, w |-> k.r, h |-> k.r, den |-> 1]

\* one paint operation, recorded with the context state it was painted under
PaintOperation(ctx, kind, g, what) ==
  [op |-> kind, x |-> g.x, y |-> g.y, w |-> g.w, h |-> g.h, den |-> g.den,
   what |-> what,
   style |-> IF kind \in {"strokeRect", "strokePath", "strokeArc"}
             THEN ctx.strokeStyle ELSE ctx.fillStyle,
   globalAlpha |-> ctx.globalAlpha,
   globalCompositeOperation |-> ctx.globalCompositeOperation,
   font |-> ctx.font, textAlign |-> ctx.textAlign,
   textBaseline |-> ctx.textBaseline, clip |-> ctx.clip]

Paint(c, kind, g, what) ==
  CHOOSE painted \in
    {[v EXCEPT !.ops = Append(@, PaintOperation(v.ctx, kind, g, what))] : v \in {c}} :
    TRUE

-----------------------------------------------------------------------------
(* Front face, layers 1 to 4 *)

Styles == {"modern", "classic", "vintage", "premium", "rookie"}

ToLowerCase(s) ==
  CASE s = "Modern" -> "modern"
    [] s = "Classic" -> "classic"
    [] s = "Vintage" -> "vintage"
    [] s = "Premium" -> "premium"
    [] s = "Rookie" -> "rookie"
    [] OTHER -> s

BaseColor(style) ==
  IF style = "vintage" THEN "#d4c4a0"
  ELSE IF style = "modern" THEN "#3a3a3a"
  ELSE "#e8dcc0"

PatternOpacity(style) ==
  IF style = "modern" THEN 30 ELSE IF style = "vintage" THEN 60 ELSE 40

BlendMode(style) ==
  IF style = "modern" THEN "multiply"
  ELSE IF style = "vintage" THEN "overlay"
  ELSE "soft-light"

FallbackGradient(style) ==
  IF style = "vintage" THEN "linear-gradient(#f4e4bc,#d4af37)"
  ELSE IF style = "modern" THEN "linear-gradient(#2c3e50,#3498db)"
  ELSE "linear-gradient(#ffffff,#f8f9fa)"

FullCanvas(d) == Box(0, 0, Px(d.width), Px(d.height))

\* Layer 1.  textureLoaded: whether loadImage('/assets/bg-textures/wood1.svg')
\* resolved; a rejection is caught and the gradient painted instead.
RenderBaseBackground(c, data, d, textureLoaded) ==
  LET style == ToLowerCase(data.style)
      c0 == SetCtx(c, "font", Px(50))
      textured ==
        LET c1 == Paint(SetCtx(c0, "fillStyle", BaseColor(style)),
                        "fillRect", Rect(FullCanvas(d)), "")
            c2 == SetCtx(SetCtx(c1, "globalAlpha", PatternOpacity(style)),
                         "globalCompositeOperation", BlendMode(style))
            c3 == Paint(c2, "drawImage", Rect(FullCanvas(d)), "texture")
        IN  SetCtx(SetCtx(c3, "globalAlpha", 100),
                   "globalCompositeOperation", "source-over")
      fallback ==
        Paint(SetCtx(c0, "fillStyle", FallbackGradient(style)),
              "fillRect", Rect(FullCanvas(d)), "")
      painted == IF textureLoaded THEN textured ELSE fallback
  IN  Paint(SetCtx(SetCtx(painted, "strokeStyle", "#333"), "lineWidth", 4),
            "strokeRect",
            Rect(Box(Px(2), Px(2), Px(d.width - 4), Px(d.height - 4))), "")

\* Layer 2
RenderPlayerImageContainer(c, d) ==
  LET c1 == Paint(SetCtx(c, "fillStyle", "rgba(255, 255, 255, 0.9)"),
                  "fillPath", Rect(ImageContainerBox(d)), "roundedRect")
  IN  Paint(SetCtx(SetCtx(c1, "strokeStyle", "#666"), "lineWidth", 2),
            "strokePath", Rect(ImageContainerBox(d)), "roundedRect")

\* Layer 3
RenderPlayerInformationContainer(c, d) ==
  LET b == InfoContainerBox(d)
      c1 == Paint(SetCtx(c, "fillStyle", "rgba(255, 255, 255, 0.95)"),
                  "fillPath", Rect(b), "roundedRect")
      c2 == Paint(SetCtx(SetCtx(c1, "strokeStyle", "#333"), "lineWidth", 2),
                  "strokePath", Rect(b), "roundedRect")
      c3 == SetCtx(Save(c2), "clip", "infoContainer")
      c4 == Paint(SetCtx(c3, "fillStyle", "linear-gradient(rgba(0, 0, 0, 0.1),rgba(0, 0, 0, 0))"),
                  "fillRect", Rect(Box(b.x, b.y, b.w, Px(20))), "")
  IN  Restore(c4)

\* Layer 4
RenderPlayerLogoContainer(c, d) ==
  LET k == LogoContainerCircle(d)
      c1 == Paint(SetCtx(c, "fillStyle", "rgba(255, 255, 255, 0.9)"),
                  "fillArc", Disc(k), "circle")
  IN  Paint(SetCtx(SetCtx(c1, "strokeStyle", "#666"), "lineWidth", 2),
            "strokeArc", Disc(k), "circle")

-----------------------------------------------------------------------------
(* Images and text measurement (the browser's part) *)

\* An image source: uri "" is a missing reference, "data:corrupt" does not
\* decode, "data:image" decodes to an image of width x height.
Image(w, h) == [uri |-> "data:image", width |-> w, height |-> h]
MissingImage == [uri |-> "", width |-> 0, height |-> 0]
CorruptImage == [uri |-> "data:corrupt", width |-> 0, height |-> 0]

\* loadImage resolves (img.onload) exactly for a decodable source
LoadImageResolves(src) == src.uri = "data:image"

\* ctx.measureText(text) under a font of the given size: half an em per
\* character, 0.7 em of ascent plus descent for any text that has glyphs
MeasureTextWidth(text, font) == (Len(text) * font) \div 2

MeasureTextHeight(text, font) == IF text = "" THEN 0 ELSE (font * 7) \div 10

\* assigning ctx.font: an invalid (negative) size leaves the font unchanged
SetFont(c, size) == IF size >= 0 THEN SetCtx(c, "font", size) ELSE c

TextAt(x, y, maxWidth) == [x |-> x, y |-> y, w |-> maxWidth, h |-> 0, den |-> 1]

RECURSIVE TrimStart(_)
TrimStart(s) ==
  IF s # "" /\ SubSeq(s, 1, 1) \in {" ", "\n"}
  THEN TrimStart(SubSeq(s, 2, Len(s))) ELSE s

RECURSIVE TrimEnd(_)
TrimEnd(s) ==
  IF s # "" /\ SubSeq(s, Len(s), Len(s)) \in {" ", "\n"}
  THEN TrimEnd(SubSeq(s, 1, Len(s) - 1)) ELSE s

Trim(s) == TrimEnd(TrimStart(s))

\* String.prototype.split(sep) for a one-character separator
RECURSIVE Split(_, _)
Split(s, sep) ==
  LET separators == {i \in 1..Len(s) : SubSeq(s, i, i) = sep}
  IN  IF separators = {} THEN <<s>>
      ELSE LET first == CHOOSE i \in separators : \A j \in separators : i <= j
           IN  <<SubSeq(s, 1, first - 1)>> \o Split(SubSeq(s, first + 1, Len(s)), sep)

RECURSIVE Join(_, _)
Join(parts, sep) ==
  IF parts = <<>> THEN ""
  ELSE IF Len(parts) = 1 THEN parts[1]
  ELSE parts[1] \o sep \o Join(Tail(parts), sep)

-----------------------------------------------------------------------------
(* Front face, layers 5 to 7 *)

\* imageAspect > containerAspect, as IEEE division then comparison decides it
AspectExceeds(sw, sh, tw, th) ==
  IF th > 0 THEN sw * th > tw * sh
  ELSE IF th = 0 THEN tw < 0
  ELSE sw * th < tw * sh

\* the cover fit with its aspect test inverted (the image no longer covers)
CoverFitInverted(sw, sh, b) ==
  LET den == 2 * sw * sh
  IN  IF ~AspectExceeds(sw, sh, b.w, b.h)
      THEN LET drawHeight == b.h * den
               drawWidth == b.h * 2 * sw * sw
           IN  [x |-> b.x * den + (b.w * den - drawWidth) \div 2,
                y |-> b.y * den, w |-> drawWidth, h |-> drawHeight, den |-> den]
      ELSE LET drawWidth == b.w * den
               drawHeight == b.w * 2 * sh * sh
           IN  [x |-> b.x * den,
                y |-> b.y * den + (b.h * den - drawHeight) \div 2,
                w |-> drawWidth, h |-> drawHeight, den |-> den]

\* renderPlayerImage's cover fit of a sw x sh image into box b
CoverFit(sw, sh, b) ==
  LET den == 2 * sw * sh
  IN  IF AspectExceeds(sw, sh, b.w, b.h)
      THEN LET drawHeight == b.h * den
               drawWidth == b.h * 2 * sw * sw
           IN  [x |-> b.x * den + (b.w * den - drawWidth) \div 2,
                y |-> b.y * den, w |-> drawWidth, h |-> drawHeight, den |-> den]
      ELSE LET drawWidth == b.w * den
               drawHeight == b.w * 2 * sh * sh
           IN  [x |-> b.x * den,
                y |-> b.y * den + (b.h * den - drawHeight) \div 2,
                w |-> drawWidth, h |-> drawHeight, den |-> den]

\* the contain fit with its aspect test inverted (the shorter side gets the diameter)
ContainFitInverted(sw, sh, k) ==
  LET den == 2 * sw * sh
      diameter == k.r * 2
      drawWidth == IF sw < sh THEN diameter * den ELSE diameter * 2 * sw * sw
      drawHeight == IF sw < sh THEN diameter * 2 * sh * sh ELSE diameter * den
  IN  [x |-> k.cx * den - drawWidth \div 2, y |-> k.cy * den - drawHeight \div 2,
       w |-> drawWidth, h |-> drawHeight, den |-> den]

\* renderTeamInformation's contain fit of a sw x sh logo into circle k
ContainFit(sw, sh, k) ==
  LET den == 2 * sw * sh
      diameter == k.r * 2
      drawWidth == IF sw > sh THEN diameter * den ELSE diameter * 2 * sw * sw
      drawHeight == IF sw > sh THEN diameter * 2 * sh * sh ELSE diameter * den
  IN  [x |-> k.cx * den - drawWidth \div 2, y |-> k.cy * den - drawHeight \div 2,
       w |-> drawWidth, h |-> drawHeight, den |-> den]

PlaceholderBox(d) ==
  Box(Px(d.safeMargin + 10), Px(d.safeMargin + 70),
      Px(d.width - 2 * d.safeMargin - 20), Px(380))

DrawImagePlaceholder(c, d) ==
  LET b == PlaceholderBox(d)
      c1 == Paint(SetCtx(c, "fillStyle", "#ddd"), "fillRect", Rect(b), "placeholder")
      c2 == SetCtx(SetFont(SetCtx(c1, "fillStyle", "#666"), Px(24)), "textAlign", "center")
  IN  Paint(c2, "fillText", TextAt(b.x + b.w \div 2, b.y + b.h \div 2, 0), "Player Photo")

\* renderPlayerImage whose catch block only logs, as renderTeamInformation's does
RenderPlayerImageSilentSkip(c, data, d) ==
  IF LoadImageResolves(data.playerPhotoDataUri)
  THEN LET photo == data.playerPhotoDataUri
           c1 == SetCtx(Save(c), "clip", "imageContainer")
           c2 == Paint(c1, "drawImage",
                       CoverFit(photo.width, photo.height, PlayerImageTargetBox(d)),
                       "playerPhoto")
       IN  Restore(c2)
  ELSE c

\* Layer 5 once loadImage(playerPhotoDataUri) has settled
RenderPlayerImage(c, data, d) ==
  IF LoadImageResolves(data.playerPhotoDataUri)
  THEN LET photo == data.playerPhotoDataUri
           c1 == SetCtx(Save(c), "clip", "imageContainer")
           c2 == Paint(c1, "drawImage",
                       CoverFit(photo.width, photo.height, PlayerImageTargetBox(d)),
                       "playerPhoto")
       IN  Restore(c2)
  ELSE DrawImagePlaceholder(c, d)

\* Layer 6 once loadImage(teamLogoDataUri) has settled; a rejection is only logged
RenderTeamInformation(c, data, d) ==
  IF data.teamLogoDataUri.uri # "" /\ LoadImageResolves(data.teamLogoDataUri)
  THEN LET logo == data.teamLogoDataUri
           c1 == SetCtx(Save(c), "clip", "logoCircle")
           c2 == Paint(c1, "drawImage",
                       ContainFit(logo.width, logo.height, TeamLogoCircle(d)),
                       "teamLogo")
       IN  Restore(c2)
  ELSE c

MinPlayerNameFontSize == 10

\* the search with its height test left out
ShrinkToFitWidthOnly(name, size, maxWidth, maxHeight) ==
  LET Candidate(k) == size - Px(k)
      Stops(k) ==
        \/ ~(Candidate(k) > Px(MinPlayerNameFontSize))
        \/ MeasureTextWidth(name, Candidate(k)) <= maxWidth
      last == Max(0, (size - Px(MinPlayerNameFontSize) + Px(1) - 1) \div Px(1))
      stops == {k \in 0..last : Stops(k)}
      first == CHOOSE k \in stops : \A j \in stops : k <= j
  IN  Candidate(first)

\* the while loop of renderPlayerInformation from candidate size `size`: the
\* candidates go down by one pixel, and the loop stops at the first one that is
\* not above the minimum or that fits both ways
ShrinkToFit(name, size, maxWidth, maxHeight) ==
  LET Candidate(k) == size - Px(k)
      Stops(k) ==
        \/ ~(Candidate(k) > Px(MinPlayerNameFontSize))
        \/ /\ MeasureTextWidth(name, Candidate(k)) <= maxWidth
           /\ MeasureTextHeight(name, Candidate(k)) <= maxHeight
      last == Max(0, (size - Px(MinPlayerNameFontSize) + Px(1) - 1) \div Px(1))
      stops == {k \in 0..last : Stops(k)}
      first == CHOOSE k \in stops : \A j \in stops : k <= j
  IN  Candidate(first)

\* the fitting with its search started from the max height, whatever the
\* estimate
OptimalFontSizeFromHeight(name, estimate, usableTextWidth, nameAreaHeight) ==
  IF name # "" /\ Trim(name) # ""
  THEN Max(ShrinkToFit(name, nameAreaHeight, usableTextWidth, nameAreaHeight),
           Px(MinPlayerNameFontSize))
  ELSE estimate

\* the font size the name is painted with: the search runs from the initial
\* estimate (let optimalFontSize = nameAreaHeight) for a name that is not blank
OptimalFontSize(name, estimate, usableTextWidth, nameAreaHeight) ==
  IF name # "" /\ Trim(name) # ""
  THEN Max(ShrinkToFit(name, estimate, usableTextWidth, nameAreaHeight),
           Px(MinPlayerNameFontSize))
  ELSE estimate

Details(data) ==
  (IF data.cardNumber # "" THEN <<"#" \o data.cardNumber>> ELSE <<>>)
  \o (IF data.cardYear # "" THEN <<data.cardYear>> ELSE <<>>)

\* Layer 7
RenderPlayerInformation(c, data, d) ==
  LET b == InfoTextBox(d)
      textPadding == Px(10)
      spacingBetweenNameAndOtherInfo == Px(8)
      usableTextX == b.x + textPadding
      usableTextY == b.y + textPadding
      usableTextWidth == b.w - 2 * textPadding
      usableTextHeight == b.h - 2 * textPadding
      totalContentHeight == usableTextHeight - spacingBetweenNameAndOtherInfo
      nameAreaHeight == Frac(totalContentHeight, 75, 100)
      otherInfoAreaHeight == Frac(totalContentHeight, 25, 100)
      nameCenterX == usableTextX + usableTextWidth \div 2
      nameDisplayAreaCenterY == usableTextY + nameAreaHeight \div 2
      c1 == SetCtx(SetCtx(SetCtx(c, "fillStyle", "#333"), "textAlign", "center"),
                   "textBaseline", "middle")
      c2 == SetFont(SetFont(c1, nameAreaHeight),
                    OptimalFontSize(data.name, nameAreaHeight, usableTextWidth,
                                    nameAreaHeight))
      c3 == Paint(c2, "fillText",
                  TextAt(nameCenterX, nameDisplayAreaCenterY, usableTextWidth),
                  data.name)
      otherInfoAreaStartY == usableTextY + nameAreaHeight + spacingBetweenNameAndOtherInfo
      c4 == IF data.position # ""
            THEN SetCtx(SetCtx(SetFont(c3, Px(18)), "textAlign", "center"),
                        "textBaseline", "top")
            ELSE c3
      positionTextHeight == MeasureTextHeight(data.position, c4.ctx.font)
      positionFits ==
        /\ data.position # ""
        /\ otherInfoAreaStartY + positionTextHeight
             < otherInfoAreaStartY + otherInfoAreaHeight
      c5 == IF positionFits
            THEN Paint(c4, "fillText",
                       TextAt(nameCenterX, otherInfoAreaStartY, usableTextWidth),
                       data.position)
            ELSE c4
      currentY == IF positionFits
                  THEN otherInfoAreaStartY + positionTextHeight + Px(4)
                  ELSE otherInfoAreaStartY
      details == Join(Details(data), " / ")
      c6 == IF Details(data) # <<>>
            THEN SetCtx(SetCtx(SetCtx(c5, "fillStyle", "#555"), "textAlign", "center"),
                        "textBaseline", "top")
            ELSE c5
      detailsFit ==
        /\ Details(data) # <<>>
        /\ currentY + MeasureTextHeight(details, c6.ctx.font)
             < otherInfoAreaStartY + otherInfoAreaHeight
  IN  IF usableTextWidth <= 0 \/ usableTextHeight <= 0 THEN c
      ELSE IF detailsFit
           THEN Paint(c6, "fillText",
                      TextAt(nameCenterX, currentY, usableTextWidth), details)
           ELSE c6

-----------------------------------------------------------------------------
(* Back face and stats *)

\* wrapText measuring the current line instead of the line with the next word
RECURSIVE WrapWordsLate(_, _, _, _)
WrapWordsLate(words, currentLine, font, maxWidth) ==
  IF words = <<>> THEN (IF currentLine # "" THEN <<currentLine>> ELSE <<>>)
  ELSE LET word == Head(words)
           testLine == IF currentLine # "" THEN currentLine \o " " \o word ELSE word
       IN  IF MeasureTextWidth(currentLine, font) > maxWidth /\ currentLine # ""
           THEN <<currentLine>> \o WrapWordsLate(Tail(words), word, font, maxWidth)
           ELSE WrapWordsLate(Tail(words), testLine, font, maxWidth)

RECURSIVE WrapWords(_, _, _, _)
WrapWords(words, currentLine, font, maxWidth) ==
  IF words = <<>> THEN (IF currentLine # "" THEN <<currentLine>> ELSE <<>>)
  ELSE LET word == Head(words)
           testLine == IF currentLine # "" THEN currentLine \o " " \o word ELSE word
       IN  IF MeasureTextWidth(testLine, font) > maxWidth /\ currentLine # ""
           THEN <<currentLine>> \o WrapWords(Tail(words), word, font, maxWidth)
           ELSE WrapWords(Tail(words), testLine, font, maxWidth)

WrapText(font, text, maxWidth) == WrapWords(Split(text, " "), "", font, maxWidth)

\* Math.floor(Math.random() * n), the random number being u / (RandDen * RandFine)
RandomBelow(u, n) == (u * n) \div (RandDen * RandFine)

\* the sequences of six Math.random() results a call of a render may draw
RandomTapes == {[i \in 1..6 |-> u * RandFine] : u \in 0..(RandDen - 1)}

\* generatePlayerStats with one more home run in its range
GeneratePlayerStatsWideHomeRuns(tape) ==
  Join(<<"Games Played: " \o ToString(RandomBelow(tape[1], 20) + 15),
         "Batting Average: ." \o ToString(RandomBelow(tape[2], 300) + 200),
         "Home Runs: " \o ToString(RandomBelow(tape[3], 9) + 2),
         "RBIs: " \o ToString(RandomBelow(tape[4], 25) + 10),
         "Stolen Bases: " \o ToString(RandomBelow(tape[5], 10) + 3),
         "Fielding %: ." \o ToString(RandomBelow(tape[6], 100) + 900)>>, "\n")

GeneratePlayerStats(tape) ==
  Join(<<"Games Played: " \o ToString(RandomBelow(tape[1], 20) + 15),
         "Batting Average: ." \o ToString(RandomBelow(tape[2], 300) + 200),
         "Home Runs: " \o ToString(RandomBelow(tape[3], 8) + 2),
         "RBIs: " \o ToString(RandomBelow(tape[4], 25) + 10),
         "Stolen Bases: " \o ToString(RandomBelow(tape[5], 10) + 3),
         "Fielding %: ." \o ToString(RandomBelow(tape[6], 100) + 900)>>, "\n")

\* a slice that keeps every element
TakeAll(seq, n) == seq

Take(seq, n) == SubSeq(seq, 1, Min(n, Len(seq)))

RECURSIVE FillLines(_, _, _, _, _)
FillLines(c, lines, x, y, lineHeight) ==
  IF lines = <<>> THEN c
  ELSE FillLines(Paint(c, "fillText", TextAt(x, y, 0), Head(lines)),
                 Tail(lines), x, y + lineHeight, lineHeight)

BuildBackCard(c, data, d, tape) ==
  LET c1 == Paint(SetCtx(c, "fillStyle", "#f8f9fa"), "fillRect", Rect(FullCanvas(d)), "")
      c2 == Paint(SetCtx(SetCtx(c1, "strokeStyle", "#333"), "lineWidth", 4),
                  "strokeRect",
                  Rect(Box(Px(2), Px(2), Px(d.width - 4), Px(d.height - 4))), "")
      c3 == SetCtx(SetFont(SetCtx(c2, "fillStyle", "#333"), Px(28)), "textAlign", "center")
      c4 == Paint(c3, "fillText", TextAt(Px(d.width) \div 2, Px(80), 0), data.name)
      bioLines == Take(WrapText(Px(16), data.bio, Px(d.width - 120)), 6)
      c5 == IF data.bio # ""
            THEN LET b1 == SetCtx(SetFont(c4, Px(20)), "textAlign", "left")
                     b2 == Paint(b1, "fillText", TextAt(Px(60), Px(150), 0), "Biography")
                 IN  FillLines(SetFont(b2, Px(16)), bioLines, Px(60), Px(190), Px(22))
            ELSE c4
      currentY == IF data.bio # ""
                  THEN Px(150) + Px(40) + Len(bioLines) * Px(22) + Px(30)
                  ELSE Px(150)
      c6 == Paint(SetFont(c5, Px(20)), "fillText", TextAt(Px(60), currentY, 0),
                  "Season Stats")
      statLines == SelectSeq(Split(GeneratePlayerStats(tape), "\n"),
                             LAMBDA line : Trim(line) # "")
  IN  FillLines(SetFont(c6, Px(16)), Take(statLines, 8),
                Px(60), currentY + Px(40), Px(22))

\* canvas.toDataURL('image/png', 1.0): a lossless encoding of the surface
ToDataURL(c) ==
  [format |-> "image/png", width |-> c.width, height |-> c.height, pixels |-> c.ops]

NoDataURL == [format |-> "", width |-> 0, height |-> 0, pixels |-> <<>>]

NoResult == [frontDataUri |-> NoDataURL, backDataUri |-> NoDataURL, playerStats |-> ""]

-----------------------------------------------------------------------------
(* generateCard: the order of its steps *)

\* buildFrontCard with the emblem layer called before the photo layer
BuildFrontCardStepsEmblemFirst ==
  <<"layer1", "layer2", "layer3", "layer4", "layer6", "layer5", "layer7">>

BuildFrontCardSteps ==
  <<"layer1", "layer2", "layer3", "layer4", "layer5", "layer6", "layer7">>

GenerateCardSteps == BuildFrontCardSteps \o <<"back", "stats", "encode">>

StepAfter(step) ==
  LET i == CHOOSE j \in 1..Len(GenerateCardSteps) : GenerateCardSteps[j] = step
  IN  IF i = Len(GenerateCardSteps) THEN "done" ELSE GenerateCardSteps[i + 1]

\* every generator painting on one module-level front surface
SharedFrontCtx(r) == 1

\* the surfaces a generator paints on: this.frontCtx, this.backCtx
FrontCtx(r) == r

BackCtx(r) == r

\* renderPlayerImage without its try/catch
LoadFailureCaughtExceptPhoto(step) == step \in {"layer1", "layer6"}

\* the layers whose loadImage sits inside a try/catch of the layer itself
LoadFailureCaught(step) == step \in {"layer1", "layer5", "layer6"}

Began(step) == <<<<"begin", step>>>>

Ended(step) == <<<<"end", step>>>>

-----------------------------------------------------------------------------
(* Actions of one generator *)

\* new ClientCanvasGenerator(playerData); getContext('2d') returning null makes
\* the constructor throw at the first use of the context
Constructor(r) ==
  /\ pc[r] = "none"
  /\ \E allocated \in BOOLEAN :
       IF allocated
       THEN /\ frontCanvas' = [frontCanvas EXCEPT ![r] = CreateCanvas(CARD_DIMENSIONS)]
            /\ backCanvas' = [backCanvas EXCEPT ![r] = CreateCanvas(CARD_DIMENSIONS)]
            /\ debugCanvases' = IF debug THEN r ELSE debugCanvases
            /\ pc' = [pc EXCEPT ![r] = "constructed"]
       ELSE /\ pc' = [pc EXCEPT ![r] = "threw"]
            /\ UNCHANGED <<frontCanvas, backCanvas, debugCanvases>>
  /\ UNCHANGED <<call, serverAction>>
  /\ UNCHANGED <<batch, random, CARD_DIMENSIONS, debug, playerData, trace,
                 playerStats, result, debugDom>>

\* generateCard() is called and enters buildFrontCard
GenerateCard(r) ==
  /\ pc[r] = "constructed"
  /\ pc' = [pc EXCEPT ![r] = GenerateCardSteps[1]]
  /\ UNCHANGED <<call, serverAction>>
  /\ UNCHANGED <<batch, random, CARD_DIMENSIONS, debug, playerData, frontCanvas,
                 backCanvas, trace, playerStats, result, debugCanvases,
                 debugDom>>

\* a layer issues loadImage and suspends until the image has settled
LoadImage(r) ==
  /\ \/ pc[r] \in {"layer1", "layer5"}
     \/ pc[r] = "layer6" /\ playerData[r].teamLogoDataUri.uri # ""
  /\ trace' = [trace EXCEPT ![r] = @ \o Began(pc[r])]
  /\ pc' = [pc EXCEPT ![r] = pc[r] \o "_await"]
  /\ UNCHANGED <<call, serverAction>>
  /\ UNCHANGED <<batch, random, CARD_DIMENSIONS, debug, playerData, frontCanvas,
                 backCanvas, playerStats, result, debugCanvases, debugDom>>

\* a front layer completes: its paint, then debugPause, then the next step
FrontLayerDone(r, step, painted, events) ==
  /\ frontCanvas' = [frontCanvas EXCEPT ![FrontCtx(r)] = painted]
  /\ trace' = [trace EXCEPT ![r] = @ \o events]
  /\ debugDom' = IF debug THEN debugDom + 1 ELSE debugDom
  /\ pc' = [pc EXCEPT ![r] = StepAfter(step)]
  /\ UNCHANGED <<call, serverAction>>
  /\ UNCHANGED <<batch, random, CARD_DIMENSIONS, debug, playerData, backCanvas,
                 playerStats, result, debugCanvases>>

\* a rejected loadImage that no layer catches leaves generateCard through its
\* catch block, which rethrows
Rejects(r) ==
  /\ pc' = [pc EXCEPT ![r] = "rejected"]
  /\ UNCHANGED <<call, serverAction>>
  /\ UNCHANGED <<batch, random, CARD_DIMENSIONS, debug, playerData, frontCanvas,
                 backCanvas, trace, playerStats, result, debugCanvases,
                 debugDom>>

Layer1BaseBackground(r) ==
  /\ pc[r] = "layer1_await"
  /\ \E textureLoaded \in BOOLEAN :
       IF ~textureLoaded /\ ~LoadFailureCaught("layer1")
       THEN Rejects(r)
       ELSE FrontLayerDone(r, "layer1",
              RenderBaseBackground(frontCanvas[FrontCtx(r)], playerData[r],
                                   CARD_DIMENSIONS, textureLoaded),
              Ended("layer1"))

Layer2PlayerImageContainer(r) ==
  /\ pc[r] = "layer2"
  /\ FrontLayerDone(r, "layer2",
       RenderPlayerImageContainer(frontCanvas[FrontCtx(r)], CARD_DIMENSIONS),
       Began("layer2") \o Ended("layer2"))

Layer3PlayerInformationContainer(r) ==
  /\ pc[r] = "layer3"
  /\ FrontLayerDone(r, "layer3",
       RenderPlayerInformationContainer(frontCanvas[FrontCtx(r)], CARD_DIMENSIONS),
       Began("layer3") \o Ended("layer3"))

Layer4PlayerLogoContainer(r) ==
  /\ pc[r] = "layer4"
  /\ FrontLayerDone(r, "layer4",
       RenderPlayerLogoContainer(frontCanvas[FrontCtx(r)], CARD_DIMENSIONS),
       Began("layer4") \o Ended("layer4"))

Layer5PlayerImage(r) ==
  /\ pc[r] = "layer5_await"
  /\ IF ~LoadImageResolves(playerData[r].playerPhotoDataUri)
        /\ ~LoadFailureCaught("layer5")
     THEN Rejects(r)
     ELSE FrontLayerDone(r, "layer5",
            RenderPlayerImage(frontCanvas[FrontCtx(r)], playerData[r], CARD_DIMENSIONS),
            Ended("layer5"))

Layer6TeamInformation(r) ==
  /\ \/ pc[r] = "layer6_await"
     \/ pc[r] = "layer6" /\ playerData[r].teamLogoDataUri.uri = ""
  /\ IF /\ pc[r] = "layer6_await"
        /\ ~LoadImageResolves(playerData[r].teamLogoDataUri)
        /\ ~LoadFailureCaught("layer6")
     THEN Rejects(r)
     ELSE FrontLayerDone(r, "layer6",
            RenderTeamInformation(frontCanvas[FrontCtx(r)], playerData[r],
                                  CARD_DIMENSIONS),
            IF pc[r] = "layer6" THEN Began("layer6") \o Ended("layer6")
            ELSE Ended("layer6"))

Layer7PlayerInformation(r) ==
  /\ pc[r] = "layer7"
  /\ FrontLayerDone(r, "layer7",
       RenderPlayerInformation(frontCanvas[FrontCtx(r)], playerData[r], CARD_DIMENSIONS),
       Began("layer7") \o Ended("layer7"))

BackCard(r) ==
  /\ pc[r] = "back"
  /\ \E tape \in RandomTapes :
       /\ backCanvas' = [backCanvas EXCEPT ![BackCtx(r)] =
                           BuildBackCard(@, playerData[r], CARD_DIMENSIONS, tape)]
       /\ random' = [random EXCEPT ![r] = Append(@, tape)]
  /\ trace' = [trace EXCEPT ![r] = @ \o Began("back") \o Ended("back")]
  /\ pc' = [pc EXCEPT ![r] = StepAfter("back")]
  /\ UNCHANGED <<call, serverAction>>
  /\ UNCHANGED <<batch, CARD_DIMENSIONS, debug, playerData, frontCanvas,
                 playerStats, result, debugCanvases, debugDom>>

PlayerStats(r) ==
  /\ pc[r] = "stats"
  /\ \E tape \in RandomTapes :
       /\ playerStats' = [playerStats EXCEPT ![r] = GeneratePlayerStats(tape)]
       /\ random' = [random EXCEPT ![r] = Append(@, tape)]
  /\ trace' = [trace EXCEPT ![r] = @ \o Began("stats") \o Ended("stats")]
  /\ pc' = [pc EXCEPT ![r] = StepAfter("stats")]
  /\ UNCHANGED <<call, serverAction>>
  /\ UNCHANGED <<batch, CARD_DIMENSIONS, debug, playerData, frontCanvas,
                 backCanvas, result, debugCanvases, debugDom>>

\* both toDataURL calls, and the return of the result
Encode(r) ==
  /\ pc[r] = "encode"
  /\ result' = [result EXCEPT ![r] =
                  [frontDataUri |-> ToDataURL(frontCanvas[FrontCtx(r)]),
                   backDataUri |-> ToDataURL(backCanvas[BackCtx(r)]),
                   playerStats |-> playerStats[r]]]
  /\ trace' = [trace EXCEPT ![r] = @ \o Began("encode") \o Ended("encode")]
  /\ pc' = [pc EXCEPT ![r] = StepAfter("encode")]
  /\ UNCHANGED <<call, serverAction>>
  /\ UNCHANGED <<batch, random, CARD_DIMENSIONS, debug, playerData, frontCanvas,
                 backCanvas, playerStats, debugCanvases, debugDom>>

Step(r) ==
    \/ Constructor(r)
    \/ GenerateCard(r)
    \/ LoadImage(r)
    \/ Layer1BaseBackground(r)
    \/ Layer2PlayerImageContainer(r)
    \/ Layer3PlayerInformationContainer(r)
    \/ Layer4PlayerLogoContainer(r)
    \/ Layer5PlayerImage(r)
    \/ Layer6TeamInformation(r)
    \/ Layer7PlayerInformation(r)
    \/ BackCard(r)
    \/ PlayerStats(r)
    \/ Encode(r)

Next == \E r \in Renders : Step(r)

-----------------------------------------------------------------------------
(* Inputs and initial states *)

Images == {Image(w, h) : w \in 1..MaxSide, h \in 1..MaxSide}

Names == {"", " ", "Alex Johnson"}

OptionalFields ==
  {[position |-> "", cardNumber |-> "", cardYear |-> "", bio |-> ""],
   [position |-> "SS", cardNumber |-> "7", cardYear |-> "2024",
    bio |-> "Fast and fearless"]}

PlayerData(name, optional, photo, logo, style) ==
  [name |-> name, position |-> optional.position,
   cardNumber |-> optional.cardNumber, cardYear |-> optional.cardYear,
   bio |-> optional.bio, playerPhotoDataUri |-> photo,
   teamLogoDataUri |-> logo, style |-> style]

NoOptionalFields == [position |-> "", cardNumber |-> "", cardYear |-> "", bio |-> ""]

NoPlayerData == PlayerData("", NoOptionalFields, MissingImage, MissingImage, "")

\* what any caller of the exported class may pass
PlayerDatas ==
  {PlayerData(name, optional, photo, logo, style) :
     name \in Names, optional \in OptionalFields,
     photo \in {MissingImage, CorruptImage, Image(2, 3), Image(3, 2)},
     logo \in {MissingImage, CorruptImage} \cup Images,
     style \in Styles}

\* no generateCards call is in progress
NoBatch ==
  [playerData |-> NoPlayerData, isGenerating |-> FALSE, i |-> 0,
   results |-> <<>>, onComplete |-> <<>>, onError |-> <<>>]

\* no helper has been called
NoCall == [fn |-> "none"]

\* no server action has been invoked
NoServerAction == [name |-> "none", pc |-> "idle"]

InitGenerators(active) ==
  /\ pc = [r \in Renders |-> IF r \in active THEN "none" ELSE "unused"]
  /\ frontCanvas = [r \in Renders |-> NoCanvas]
  /\ backCanvas = [r \in Renders |-> NoCanvas]
  /\ trace = [r \in Renders |-> <<>>]
  /\ playerStats = [r \in Renders |-> ""]
  /\ result = [r \in Renders |-> NoResult]
  /\ debugCanvases = 0
  /\ debugDom = 0
  /\ random = [r \in Renders |-> <<>>]

\* one render of any PlayerData at the standard card dimensions
Init ==
  /\ CARD_DIMENSIONS = StandardDimensions
  /\ debug \in BOOLEAN
  /\ playerData \in {[r \in Renders |-> IF r = 1 THEN data ELSE NoPlayerData] :
                       data \in PlayerDatas}
  /\ InitGenerators({1})
  /\ batch = NoBatch
  /\ call = NoCall
  /\ serverAction = NoServerAction

Spec == Init /\ [][Next]_vars

\* two renders, of the same or of different players, free to interleave
PairDatas ==
  {PlayerData("Alex Johnson", NoOptionalFields, CorruptImage, Image(1, 1), "modern"),
   PlayerData("Alex Johnson", NoOptionalFields, Image(2, 3), Image(1, 1), "vintage")}

InitPair ==
  /\ CARD_DIMENSIONS = StandardDimensions
  /\ debug \in BOOLEAN
  /\ playerData \in
       {[r \in Renders |-> IF r = 1 THEN first ELSE IF r = 2 THEN second
                                                ELSE NoPlayerData] :
          first \in PairDatas, second \in PairDatas}
  /\ InitGenerators({1, 2})
  /\ batch = NoBatch
  /\ call = NoCall
  /\ serverAction = NoServerAction

SpecPair == InitPair /\ [][Next]_vars

\* the spec's validity of CardDimensions: the safe margin leaves usable width
\* and height
ValidDimensions(d) ==
  /\ d.safeMargin >= 0
  /\ 2 * d.safeMargin < d.width
  /\ 2 * d.safeMargin < d.height

\* card dimensions on a grid of the safe margin of the standard card
Dimensions ==
  {d \in [width : {SafeMargin * i : i \in 1..MaxWidthUnits},
          height : {SafeMargin * j : j \in 1..MaxHeightUnits},
          safeMargin : {SafeMargin * k : k \in 0..MaxMarginUnits}] :
     ValidDimensions(d)}

\* one render of a player with a photo, at any valid card dimensions
InitLayout ==
  /\ CARD_DIMENSIONS \in Dimensions
  /\ debug = FALSE
  /\ playerData \in
       {[r \in Renders |->
           IF r = 1
           THEN PlayerData("Alex Johnson", NoOptionalFields, photo, logo, "classic")
           ELSE NoPlayerData] :
          photo \in {Image(2, 3), Image(3, 2)},
          logo \in {MissingImage, Image(1, 1)}}
  /\ InitGenerators({1})
  /\ batch = NoBatch
  /\ call = NoCall
  /\ serverAction = NoServerAction

SpecLayout == InitLayout /\ [][Next]_vars

-----------------------------------------------------------------------------
(* generateCards of ClientCanvasCardGenerator: three variations in a loop *)

BatchStyles == <<"modern", "classic", "vintage">>

\* { ...playerData, style: styles[i] }
VariationData(data, i) == [data EXCEPT !.style = BatchStyles[i]]

\* error.message of what the constructor throws on a null context
ErrorMessage(state) ==
  IF state = "threw" THEN "Cannot set properties of null" ELSE "Failed to load image"

\* the button is clicked: setIsGenerating(true), and the first iteration
\* creates its generator
GenerateCards ==
  /\ ~batch.isGenerating
  /\ batch.i = 0
  /\ batch.playerData # NoPlayerData
  /\ batch' = [batch EXCEPT !.isGenerating = TRUE, !.i = 1, !.results = <<>>]
  /\ playerData' = [playerData EXCEPT ![1] = VariationData(batch.playerData, 1)]
  /\ pc' = [pc EXCEPT ![1] = "none"]
  /\ UNCHANGED <<call, serverAction>>
  /\ UNCHANGED <<random, CARD_DIMENSIONS, debug, frontCanvas, backCanvas, trace,
                 playerStats, result, debugCanvases, debugDom>>

\* error.message of what the onComplete callback of the caller throws
CallbackErrorMessage == "onComplete failed"

\* await generator.generateCard() resumes with a result: results.push(result),
\* then the next iteration, or after the last one onComplete(results), which
\* is called inside the try block: it returns, or it throws and the catch
\* block calls onError; then the finally block
PushResult ==
  /\ batch.isGenerating
  /\ batch.i \in Renders
  /\ pc[batch.i] = "done"
  /\ LET results == Append(batch.results, result[batch.i])
     IN  IF batch.i < Len(BatchStyles)
         THEN /\ batch' = [batch EXCEPT !.results = results, !.i = @ + 1]
              /\ playerData' = [playerData EXCEPT ![batch.i + 1] =
                                  VariationData(batch.playerData, batch.i + 1)]
              /\ pc' = [pc EXCEPT ![batch.i + 1] = "none"]
         ELSE /\ \E returns \in BOOLEAN :
                   batch' = [batch EXCEPT
                               !.results = results, !.i = @ + 1,
                               !.onComplete = Append(@, results),
                               !.onError = IF returns THEN @
                                           ELSE Append(@, CallbackErrorMessage),
                               !.isGenerating = FALSE]
              /\ UNCHANGED <<playerData, pc>>
  /\ UNCHANGED <<call, serverAction>>
  /\ UNCHANGED <<random, CARD_DIMENSIONS, debug, frontCanvas, backCanvas, trace,
                 playerStats, result, debugCanvases, debugDom>>

\* the constructor or generateCard threw: the catch block calls onError with
\* the message and the finally block ends the batch
CatchError ==
  /\ batch.isGenerating
  /\ batch.i \in Renders
  /\ pc[batch.i] \in {"threw", "rejected"}
  /\ batch' = [batch EXCEPT !.onError = Append(@, ErrorMessage(pc[batch.i])),
                            !.isGenerating = FALSE]
  /\ UNCHANGED <<call, serverAction>>
  /\ UNCHANGED <<random, CARD_DIMENSIONS, debug, playerData, pc, frontCanvas,
                 backCanvas, trace, playerStats, result, debugCanvases,
                 debugDom>>

NextBatch ==
    \/ GenerateCards
    \/ PushResult
    \/ CatchError
    \/ Next

\* the component is mounted with the player's data and no generator exists yet
InitBatch ==
  /\ CARD_DIMENSIONS = StandardDimensions
  /\ debug \in BOOLEAN
  /\ playerData = [r \in Renders |-> NoPlayerData]
  /\ InitGenerators({})
  /\ batch \in {[NoBatch EXCEPT !.playerData =
                    PlayerData("Alex Johnson", NoOptionalFields, photo,
                               Image(1, 1), style)] :
                   photo \in {CorruptImage, Image(2, 3)},
                   style \in Styles}
  /\ call = NoCall
  /\ serverAction = NoServerAction

SpecBatch == InitBatch /\ [][NextBatch]_vars

-----------------------------------------------------------------------------
(* The helpers of the generator called on their own, for inputs that one     *)
(* render of the standard card does not produce                              *)

\* the state of the generators and of the batch, which a helper call leaves alone
generators ==
  <<CARD_DIMENSIONS, debug, playerData, pc, frontCanvas, backCanvas, trace,
    playerStats, result, debugCanvases, debugDom, random, batch>>

BlankName == "                "

LongName == "Bartholomew Maximilian Featherstonehaugh-Cholmondeley of Springfield Isotopes"

FitNames == {"", BlankName, "Al", "Alex Johnson", LongName}

\* initial estimates: the floor, 64.1 px, 64.2 px and the 102.75 px of the
\* standard card
FitEstimates == {Px(MinPlayerNameFontSize), Px(64) + 40, Px(64) + 80,
                 Frac(Px(137), 75, 100)}

FitWidths == {Px(30), Px(385), Px(600)}

FitHeights == FitEstimates \cup {Px(50)}

\* the name fitting of renderPlayerInformation for one name and one name area
FitPlayerName ==
  /\ call = NoCall
  /\ \E name \in FitNames, estimate \in FitEstimates,
        usableTextWidth \in FitWidths, nameAreaHeight \in FitHeights :
       call' = [fn |-> "optimalFontSize", name |-> name, estimate |-> estimate,
                usableTextWidth |-> usableTextWidth,
                nameAreaHeight |-> nameAreaHeight,
                optimalFontSize |-> OptimalFontSize(name, estimate, usableTextWidth,
                                                    nameAreaHeight),
                again |-> <<>>]
  /\ UNCHANGED <<generators, serverAction>>

\* the same fitting run once more on the same name and name area
FitPlayerNameAgain ==
  /\ call.fn = "optimalFontSize"
  /\ call.again = <<>>
  /\ call' = [call EXCEPT !.again =
                <<OptimalFontSize(call.name, call.estimate, call.usableTextWidth,
                                  call.nameAreaHeight)>>]
  /\ UNCHANGED <<generators, serverAction>>

WrapTexts ==
  {"", "Fast", "Fast and fearless", "Fast  and fearless", " Fast and fearless",
   "Fast and fearless ", "Fast\nand fearless", "A shortstop with a supersonic arm"}

WrapWidths == {Px(40), Px(80), Px(136), Px(CardWidth - 120)}

\* wrapText under the 16px font of the biography
WrapBio ==
  /\ call = NoCall
  /\ \E text \in WrapTexts, maxWidth \in WrapWidths :
       call' = [fn |-> "wrapText", text |-> text, maxWidth |-> maxWidth,
                lines |-> WrapText(Px(16), text, maxWidth)]
  /\ UNCHANGED <<generators, serverAction>>

\* the sequences of six Math.random() results with each result at either end
\* of [0, 1)
ExtremeTapes == [1..6 -> {0, RandDen * RandFine - 1}]

\* generatePlayerStats called once
DrawStats ==
  /\ call = NoCall
  /\ \E tape \in ExtremeTapes :
       call' = [fn |-> "generatePlayerStats", tape |-> tape,
                stats |-> GeneratePlayerStats(tape), other |-> <<>>]
  /\ UNCHANGED <<generators, serverAction>>

\* another call of generatePlayerStats, with Math.random() results of its own
DrawOtherStats ==
  /\ call.fn = "generatePlayerStats"
  /\ call.other = <<>>
  /\ \E tape \in ExtremeTapes :
       call' = [call EXCEPT !.other = <<[tape |-> tape,
                                         stats |-> GeneratePlayerStats(tape)]>>]
  /\ UNCHANGED <<generators, serverAction>>

\* the longest biography tried, in words
MaxBioWords == 8

\* a word so long that no two of them share a line of the back face
LongWord == "pneumonoultramicroscopicsilicovolcanoconiosis"

\* a biography of n such words
Bio(n) == Join([i \in 1..n |-> LongWord], " ")

\* buildBackCard called on a fresh back surface
PaintBackFace ==
  /\ call = NoCall
  /\ \E n \in 0..MaxBioWords, name \in Names, tape \in RandomTapes :
       LET data == PlayerData(name, [NoOptionalFields EXCEPT !.bio = Bio(n)],
                              MissingImage, MissingImage, "modern")
       IN  call' = [fn |-> "buildBackCard", playerData |-> data, tape |-> tape,
                    canvas |-> BuildBackCard(CreateCanvas(CARD_DIMENSIONS), data,
                                             CARD_DIMENSIONS, tape)]
  /\ UNCHANGED <<generators, serverAction>>

\* backgroundRemoval.ts: the provider fallback of removeBackground

\* the photos passed to removeBackground
PhotoDataUris ==
  {"data:image/png;base64,iVBORw0KGgo=", "data:image/jpeg;base64,/9j/4AAQ"}

\* options.preferredProvider; "" is the option left out
PreferredProviders == {"", "withoutbg", "photoroom", "mock"}

\* what a remote provider does with a request: its API key is not configured,
\* its API answers with an error, or it returns the processed image
Outcomes == {"noKey", "apiError", "processed"}

\* the providers array with every provider listed, the preferred one twice
ProvidersWithDuplicates(preferredProvider) ==
  <<IF preferredProvider # "" THEN preferredProvider ELSE "withoutbg",
    "photoroom", "mock">>

\* the providers array: duplicates removed, first occurrence kept
Providers(preferredProvider) ==
  LET arr == <<IF preferredProvider # "" THEN preferredProvider ELSE "withoutbg",
               "photoroom", "mock">>
      IndexOfProvider(provider) ==
        CHOOSE i \in 1..Len(arr) :
          arr[i] = provider /\ \A j \in 1..Len(arr) : arr[j] = provider => i <= j
  IN  [i \in 1..Cardinality({arr[j] : j \in 1..Len(arr)}) |->
         arr[CHOOSE k \in 1..Len(arr) :
               /\ IndexOfProvider(arr[k]) = k
               /\ Cardinality({j \in 1..k : IndexOfProvider(arr[j]) = j}) = i]]

\* removeBackgroundWithWithoutBG, removeBackgroundWithPhotoRoom and
\* mockBackgroundRemoval: what the call of one provider throws or returns
ProviderResult(provider, imageDataUri, outcome) ==
  LET label == IF provider = "withoutbg" THEN "WithoutBG" ELSE "PhotoRoom"
  IN  IF provider = "mock"
      THEN [thrown |-> FALSE, success |-> TRUE,
            processedImageDataUri |-> imageDataUri,
            originalImageDataUri |-> imageDataUri, provider |-> "mock",
            error |-> ""]
      ELSE IF outcome[provider] = "noKey"
      THEN [thrown |-> TRUE, success |-> FALSE, processedImageDataUri |-> "",
            originalImageDataUri |-> "", provider |-> provider,
            error |-> label \o " API key not configured"]
      ELSE IF outcome[provider] = "apiError"
      THEN [thrown |-> FALSE, success |-> FALSE, processedImageDataUri |-> "",
            originalImageDataUri |-> imageDataUri, provider |-> provider,
            error |-> label \o " API error: 500"]
      ELSE [thrown |-> FALSE, success |-> TRUE,
            processedImageDataUri |-> "data:image/png;base64,cHJvY2Vzc2Vk",
            originalImageDataUri |-> imageDataUri, provider |-> provider,
            error |-> ""]

\* the loop over the providers and the return after it: the result, and the
\* providers called on the way
RECURSIVE TryProviders(_, _, _, _, _)
TryProviders(providers, imageDataUri, outcome, lastError, called) ==
  IF providers = <<>>
  THEN [called |-> called,
        result |-> [thrown |-> FALSE, success |-> FALSE,
                    processedImageDataUri |-> "",
                    originalImageDataUri |-> imageDataUri, provider |-> "none",
                    error |-> IF lastError # "" THEN lastError
                              ELSE "All background removal providers failed"]]
  ELSE LET provider == Head(providers)
           answer == ProviderResult(provider, imageDataUri, outcome)
       IN  IF ~answer.thrown /\ answer.success
           THEN [called |-> Append(called, provider), result |-> answer]
           ELSE TryProviders(Tail(providers), imageDataUri, outcome,
                             answer.error, Append(called, provider))

\* removeBackground(imageDataUri, {preferredProvider}) called once
CallRemoveBackground ==
  /\ call = NoCall
  /\ \E imageDataUri \in PhotoDataUris, preferredProvider \in PreferredProviders,
        outcome \in [{"withoutbg", "photoroom"} -> Outcomes] :
       LET returned == TryProviders(Providers(preferredProvider), imageDataUri,
                                    outcome, "", <<>>)
       IN  call' = [fn |-> "removeBackground", imageDataUri |-> imageDataUri,
                    preferredProvider |-> preferredProvider, outcome |-> outcome,
                    called |-> returned.called, result |-> returned.result]
  /\ UNCHANGED <<generators, serverAction>>

\* renderPlayerInformation called on a fresh front surface, with each of the
\* optional fields it reads present or absent
PaintPlayerInformation ==
  /\ call = NoCall
  /\ \E name \in Names, position \in {"", "SS"}, cardNumber \in {"", "7"},
        cardYear \in {"", "2024"} :
       LET data == PlayerData(name, [position |-> position, cardNumber |-> cardNumber,
                                     cardYear |-> cardYear, bio |-> ""],
                              MissingImage, MissingImage, "modern")
       IN  call' = [fn |-> "renderPlayerInformation", playerData |-> data,
                    canvas |-> RenderPlayerInformation(CreateCanvas(CARD_DIMENSIONS),
                                                       data, CARD_DIMENSIONS)]
  /\ UNCHANGED <<generators, serverAction>>

NextCalls ==
  \/ FitPlayerName
  \/ FitPlayerNameAgain
  \/ WrapBio
  \/ DrawStats
  \/ DrawOtherStats
  \/ PaintBackFace
  \/ PaintPlayerInformation
  \/ CallRemoveBackground

InitCalls ==
  /\ CARD_DIMENSIONS = StandardDimensions
  /\ debug = FALSE
  /\ playerData = [r \in Renders |-> NoPlayerData]
  /\ InitGenerators({})
  /\ batch = NoBatch
  /\ call = NoCall
  /\ serverAction = NoServerAction

SpecCalls == InitCalls /\ [][NextCalls]_vars

-----------------------------------------------------------------------------
(* The server actions: createBaseballCardsAction of actions-client-canvas.ts *)
(* and of actions.ts, and createEnhancedBaseballCardsAction                  *)

ServerActions == {"actions-client-canvas", "actions", "enhanced"}

\* the data URIs a form may send: none, a PNG, and a file that is no image
DataUris == {"", "data:image/png;base64,iVBORw0KGgo=", "data:text/plain;base64,QQ=="}

\* EnhancedCardData and EnhancedCardInput: the fields the actions branch on;
\* cardStyle "" is the style left out
CardDatas ==
  [playerName : {"", " ", "Alex Johnson"}, playerPhotoDataUri : DataUris,
   teamLogoDataUri : {"", "data:image/png;base64,iVBORw0KGgo="},
   cardStyle : Styles \cup {""}, removeBackground : BOOLEAN]

StartsWith(s, prefix) ==
  Len(s) >= Len(prefix) /\ SubSeq(s, 1, Len(prefix)) = prefix

ValidateImageForBackgroundRemoval(dataUri) ==
  IF ~StartsWith(dataUri, "data:image/")
  THEN [valid |-> FALSE, error |-> "Invalid image format"]
  ELSE IF Len(Split(dataUri, ",")) < 2
  THEN [valid |-> FALSE, error |-> "Invalid image data"]
  ELSE IF Len(Split(dataUri, ",")[2]) * 3 > 10 * 4 * 1024 * 1024
  THEN [valid |-> FALSE, error |-> "Image too large (max 10MB)"]
  ELSE [valid |-> TRUE, error |-> ""]

\* the three checks with the emblem checked before the photo
ValidationErrorLogoFirst(cardData) ==
  IF Trim(cardData.playerName) = "" THEN "Player name is required."
  ELSE IF cardData.teamLogoDataUri = "" THEN "Team logo is required."
  ELSE IF cardData.playerPhotoDataUri = "" THEN "Player photo is required."
  ELSE ""

\* the three checks every action starts with: the error of the first one that
\* fails, "" when all pass
ValidationError(cardData) ==
  IF Trim(cardData.playerName) = "" THEN "Player name is required."
  ELSE IF cardData.playerPhotoDataUri = "" THEN "Player photo is required."
  ELSE IF cardData.teamLogoDataUri = "" THEN "Team logo is required."
  ELSE ""

\* the styles array of each action
VariationStyles(name, cardStyle) ==
  IF name = "enhanced"
  THEN <<IF cardStyle # "" THEN cardStyle ELSE "modern", "classic", "vintage">>
  ELSE IF name = "actions"
  THEN LET baseStyles == <<"modern", "classic", "vintage">>
           Find(excluded) ==
             LET found == {i \in 1..3 : baseStyles[i] \notin excluded}
             IN  IF found = {} THEN ""
                 ELSE baseStyles[CHOOSE i \in found : \A other \in found : i <= other]
           second == Find({cardStyle})
           third == Find({cardStyle, second})
       IN  <<cardStyle, IF second # "" THEN second ELSE "classic",
             IF third # "" THEN third ELSE "vintage">>
  ELSE <<cardStyle, IF cardStyle = "modern" THEN "classic" ELSE "modern",
         IF cardStyle = "vintage" THEN "premium" ELSE "vintage">>

NumVariations(name) == IF name = "actions" THEN 1 ELSE 3

\* styles[i] || 'modern' of actions.ts, styles[i] || baseStyle of the enhanced
\* action
VariationStyle(name, cardStyle, i) ==
  LET style == VariationStyles(name, cardStyle)[i]
  IN  IF style # "" THEN style ELSE "modern"

\* the messages of the errors a collaborator may throw
Thrown == {"OpenAI request failed", "Player name is required."}

\* the error of the catch block of each action
FailureMessage(name, errorMessage) ==
  (IF name = "actions-client-canvas" THEN "Failed to prepare card generation: "
   ELSE IF name = "actions" THEN "Failed to generate card designs: "
   ELSE "Failed to generate enhanced card designs: ")
    \o errorMessage \o ". Please try again."

Returned(action, cards, error) ==
  [action EXCEPT !.pc = "returned",
                 !.result = [cardsNull |-> cards = <<>>, cards |-> cards,
                             error |-> error]]

\* the cards of the client-canvas action, which leaves the rendering to the
\* browser
PreparedCards(action) ==
  [i \in 1..3 |-> [id |-> i, style |-> "",
                   backgroundRemoved |-> action.backgroundRemoved]]

\* what follows the background removal, up to the next await or the return
AfterBackgroundRemoval(action) ==
  IF action.name = "actions-client-canvas"
  THEN Returned(action, PreparedCards(action), "")
  ELSE [action EXCEPT !.pc = "referenceImages"]

\* a call of a server action with its input
InvokeServerAction ==
  /\ serverAction = NoServerAction
  /\ \E name \in ServerActions, cardData \in CardDatas :
       serverAction' =
         [name |-> name, pc |-> "validate", cardData |-> cardData,
          effects |-> <<>>, generated |-> <<>>,
          processedPlayerPhoto |-> "", backgroundRemoved |-> FALSE,
          result |-> [cardsNull |-> FALSE, cards |-> <<>>, error |-> ""]]
  /\ UNCHANGED <<generators, call>>

\* the action from its first line to its first await or its return
ValidateInput ==
  /\ serverAction.pc = "validate"
  /\ LET name == serverAction.name
         cardData == serverAction.cardData
         validation == ValidateImageForBackgroundRemoval(cardData.playerPhotoDataUri)
         passed == [serverAction EXCEPT
                      !.processedPlayerPhoto = cardData.playerPhotoDataUri]
     IN  serverAction' =
           IF ValidationError(cardData) # ""
           THEN Returned(serverAction, <<>>, ValidationError(cardData))
           ELSE IF ~cardData.removeBackground
           THEN AfterBackgroundRemoval(passed)
           ELSE IF validation.valid
           THEN [passed EXCEPT !.pc = "removeBackground"]
           ELSE IF name = "actions-client-canvas"
           THEN AfterBackgroundRemoval(passed)
           ELSE Returned(passed, <<>>,
                         "Image validation failed: " \o validation.error)
  /\ UNCHANGED <<generators, call>>

\* await removeBackground(...): it reports success or failure, it does not throw
RemoveBackground ==
  /\ serverAction.pc = "removeBackground"
  /\ \E success \in BOOLEAN :
       LET called == [serverAction EXCEPT
                        !.effects = Append(@, "removeBackground")]
           removed == [called EXCEPT
                         !.processedPlayerPhoto = "data:image/png;base64,cHJvY2Vzc2Vk",
                         !.backgroundRemoved = called.name # "actions"]
       IN  serverAction' =
             AfterBackgroundRemoval(IF success THEN removed ELSE called)
  /\ UNCHANGED <<generators, call>>

\* await getRandomReferenceImages(numVariations), then the loop that creates
\* one generation promise per variation
LoadReferenceImages ==
  /\ serverAction.pc = "referenceImages"
  /\ LET name == serverAction.name
         called == [serverAction EXCEPT
                      !.effects = Append(@, "getRandomReferenceImages")]
         styles == [i \in 1..NumVariations(name) |->
                      VariationStyle(name, called.cardData.cardStyle, i)]
     IN  \/ serverAction' =
              [called EXCEPT
                 !.pc = "generate",
                 !.generated = styles,
                 !.effects = @ \o [i \in 1..NumVariations(name) |->
                                     "generateOpenAIComposedCard"]]
         \/ \E errorMessage \in Thrown :
              serverAction' =
                Returned(called, <<>>, FailureMessage(name, errorMessage))
  /\ UNCHANGED <<generators, call>>

\* await Promise.all(generationPromises), then the cards or the catch block
GenerateVariations ==
  /\ serverAction.pc = "generate"
  /\ LET name == serverAction.name
         cards == [i \in 1..NumVariations(name) |->
                     [id |-> i,
                      style |-> IF name = "enhanced"
                                THEN serverAction.generated[i] ELSE "",
                      backgroundRemoved |-> serverAction.backgroundRemoved]]
     IN  \/ serverAction' = Returned(serverAction, cards, "")
         \/ \E errorMessage \in Thrown :
              serverAction' =
                Returned(serverAction, <<>>, FailureMessage(name, errorMessage))
  /\ UNCHANGED <<generators, call>>

NextServer ==
  \/ InvokeServerAction
  \/ ValidateInput
  \/ RemoveBackground
  \/ LoadReferenceImages
  \/ GenerateVariations

SpecServer == InitCalls /\ [][NextServer]_vars

-----------------------------------------------------------------------------
(* Vocabulary of the properties *)

Ops(c) == {c.ops[i] : i \in 1..Len(c.ops)}

Painted(c, kind, what) == \E o \in Ops(c) : o.op = kind /\ o.what = what

LayerEnded(r, step) == \E i \in 1..Len(trace[r]) : trace[r][i] = <<"end", step>>

IsPrefix(a, b) == Len(a) <= Len(b) /\ a = SubSeq(b, 1, Len(a))

ExpectedSteps ==
  <<"layer1", "layer2", "layer3", "layer4", "layer5", "layer6", "layer7",
    "back", "stats", "encode">>

ExpectedTrace ==
  [i \in 1..(2 * Len(ExpectedSteps)) |->
     IF i % 2 = 1 THEN <<"begin", ExpectedSteps[(i + 1) \div 2]>>
     ELSE <<"end", ExpectedSteps[i \div 2]>>]

TextureFellBack(r) ==
  \E o \in Ops(frontCanvas[r]) :
    o.style = FallbackGradient(ToLowerCase(playerData[r].style))

PhotoFails(r) == ~LoadImageResolves(playerData[r].playerPhotoDataUri)

LogoFails(r) == ~LoadImageResolves(playerData[r].teamLogoDataUri)

\* both corners of b lie in outer
BoxInside(b, outer) ==
  /\ outer.x <= b.x /\ b.x + b.w <= outer.x + outer.w
  /\ outer.y <= b.y /\ b.y + b.h <= outer.y + outer.h
  /\ outer.x <= b.x + b.w /\ b.x <= outer.x + outer.w
  /\ outer.y <= b.y + b.h /\ b.y <= outer.y + outer.h

\* a and b are boxes of non-negative size that share no interior point
BoxesDisjoint(a, b) ==
  /\ a.w >= 0 /\ a.h >= 0 /\ b.w >= 0 /\ b.h >= 0
  /\ \/ a.x + a.w <= b.x \/ b.x + b.w <= a.x
     \/ a.y + a.h <= b.y \/ b.y + b.h <= a.y

\* what layers 2 to 4 computed: every box is inside the inset, no two overlap,
\* the image box is what layer 2 painted and has 80% of the content height
LayoutHolds(r, d) ==
  LET imageBox == ImageContainerBox(d)
      infoBox == InfoContainerBox(d)
      emblemBox == LogoContainerBox(d)
      inset == InnerBox(d)
  IN  /\ BoxInside(imageBox, inset)
      /\ BoxInside(infoBox, inset)
      /\ BoxInside(emblemBox, inset)
      /\ BoxesDisjoint(imageBox, infoBox)
      /\ BoxesDisjoint(imageBox, emblemBox)
      /\ BoxesDisjoint(infoBox, emblemBox)
      /\ 100 * imageBox.h = 80 * ContentHeightForContainers(d)
      /\ \E o \in Ops(frontCanvas[r]) :
           /\ o.op = "fillPath" /\ o.what = "roundedRect"
           /\ Box(o.x, o.y, o.w, o.h) = imageBox
      /\ \E o \in Ops(frontCanvas[r]) :
           /\ o.op = "fillPath" /\ o.what = "roundedRect"
           /\ Box(o.x, o.y, o.w, o.h) = infoBox

-----------------------------------------------------------------------------
(* C1 *)

\* C1: in every execution of generateCard the steps begin and end in exactly the
\* order layer 1 .. layer 7, back face, stats text, encoding, each beginning only
\* after its predecessor has ended, whichever image loads succeed or fail; a
\* result exists only once all of them have ended.
C1_StepsInOrder ==
  \A r \in Renders :
    /\ IsPrefix(trace[r], ExpectedTrace)
    /\ pc[r] = "done" => trace[r] = ExpectedTrace
    /\ result[r] # NoResult => pc[r] = "done"

C1_Witness ==
  \E r \in Renders :
    /\ pc[r] = "done" /\ trace[r] = ExpectedTrace
    /\ PhotoFails(r) /\ LogoFails(r) /\ TextureFellBack(r)

-----------------------------------------------------------------------------
(* C2 *)

\* C2: whichever of the three image loads (texture, photo, emblem) fail, a
\* generateCard is never rejected, and once it has resolved its result holds a
\* front and a back PNG of 750 x 1050 and a non-empty stats text.
C2_DecodeFailuresAbsorbed ==
  \A r \in Renders :
    /\ pc[r] # "rejected"
    /\ pc[r] = "done" =>
         /\ result[r].frontDataUri.format = "image/png"
         /\ result[r].frontDataUri.width = 750
         /\ result[r].frontDataUri.height = 1050
         /\ result[r].backDataUri.format = "image/png"
         /\ result[r].backDataUri.width = 750
         /\ result[r].backDataUri.height = 1050
         /\ result[r].playerStats # ""

C2_Witness ==
  \E r \in Renders :
    /\ pc[r] = "done"
    /\ TextureFellBack(r) /\ PhotoFails(r) /\ LogoFails(r)
    /\ playerData[r].playerPhotoDataUri.uri # ""
    /\ playerData[r].teamLogoDataUri.uri # ""
    /\ result[r].frontDataUri.width = 750

-----------------------------------------------------------------------------
(* C3 *)

\* C3: once layer 5 has ended, the front surface holds the placeholder rectangle
\* and its 'Player Photo' label exactly when the photo failed to load, and holds
\* the photo exactly when it loaded; the placeholder lies inside the image
\* container's box; and the render goes on to layers 6 and 7 either way.
C3_PlaceholderIffPhotoFails ==
  \A r \in Renders :
    LayerEnded(r, "layer5") =>
      /\ PhotoFails(r) <=> Painted(frontCanvas[r], "fillRect", "placeholder")
      /\ PhotoFails(r) <=> Painted(frontCanvas[r], "fillText", "Player Photo")
      /\ PhotoFails(r) <=> ~Painted(frontCanvas[r], "drawImage", "playerPhoto")
      /\ \A o \in Ops(frontCanvas[r]) :
           o.what = "placeholder" =>
             BoxInside(Box(o.x, o.y, o.w, o.h), ImageContainerBox(CARD_DIMENSIONS))
      /\ pc[r] \in {"layer6", "layer6_await", "layer7", "back", "stats", "encode", "done"}
      /\ pc[r] = "done" => LayerEnded(r, "layer6") /\ LayerEnded(r, "layer7")

C3_Witness ==
  \E r \in Renders :
    /\ pc[r] = "done" /\ PhotoFails(r)
    /\ Painted(frontCanvas[r], "fillRect", "placeholder")
    /\ LayerEnded(r, "layer7")

-----------------------------------------------------------------------------
(* C4 *)

ValidInput(data) ==
  /\ Trim(data.name) # ""
  /\ data.playerPhotoDataUri.uri # ""
  /\ data.teamLogoDataUri.uri # ""

\* C4: a generator given an empty or whitespace-only name, a missing photo
\* reference or a missing emblem reference never paints on either surface and
\* never completes generateCard.
C4_InvalidInputRejectedBeforeDrawing ==
  \A r \in Renders :
    (pc[r] \notin {"unused", "none"} /\ ~ValidInput(playerData[r])) =>
      /\ frontCanvas[r].ops = <<>>
      /\ backCanvas[r].ops = <<>>
      /\ pc[r] # "done"

-----------------------------------------------------------------------------
(* C5 *)

BatchEnded == batch.i > 0 /\ ~batch.isGenerating

\* the results the caller has been handed through onComplete
Delivered ==
  UNION {{batch.onComplete[k][j] : j \in 1..Len(batch.onComplete[k])} :
           k \in 1..Len(batch.onComplete)}

\* C5: when a batch of variations has ended, every variation has been rendered,
\* the result of every variation whose render succeeded has been handed to the
\* caller, and the caller holds one report (a result or an error) per
\* variation, even if the render of some variation failed.
C5_BatchIsolatesFailures ==
  BatchEnded =>
    /\ \A v \in 1..Len(BatchStyles) :
         /\ pc[v] \in {"done", "threw", "rejected"}
         /\ pc[v] = "done" => result[v] \in Delivered
    /\ Cardinality(Delivered) + Len(batch.onError) = Len(BatchStyles)

-----------------------------------------------------------------------------
(* C6 *)

\* the CardResult of a render of `data` that runs alone on fresh surfaces, the
\* texture decoding or not, Math.random returning tapes[1] for the back face
\* and tapes[2] for the stats text
SoloResult(data, d, textureLoaded, tapes) ==
  LET l1 == RenderBaseBackground(CreateCanvas(d), data, d, textureLoaded)
      l2 == RenderPlayerImageContainer(l1, d)
      l3 == RenderPlayerInformationContainer(l2, d)
      l4 == RenderPlayerLogoContainer(l3, d)
      l5 == RenderPlayerImage(l4, data, d)
      l6 == RenderTeamInformation(l5, data, d)
      l7 == RenderPlayerInformation(l6, data, d)
  IN  [frontDataUri |-> ToDataURL(l7),
       backDataUri |-> ToDataURL(BuildBackCard(CreateCanvas(d), data, d, tapes[1])),
       playerStats |-> GeneratePlayerStats(tapes[2])]

\* C6 as stated: two renders given identical PlayerData and identical style
\* produce identical CardResults (front image, back image and stats text).
C6_IdenticalInputsIdenticalResults ==
  \A r1, r2 \in Renders :
    (pc[r1] = "done" /\ pc[r2] = "done" /\ playerData[r1] = playerData[r2]) =>
      result[r1] = result[r2]

\* C6, amended: two renders given identical PlayerData and identical style,
\* whose texture decoded alike and to which Math.random returned the same
\* numbers, produce identical CardResults however their steps interleaved; and
\* the CardResult of a render is the one it produces alone, whatever another
\* render did meanwhile.
C6_IdenticalInputsAndDrawsIdenticalResults ==
  /\ \A r1, r2 \in Renders :
       (/\ pc[r1] = "done" /\ pc[r2] = "done"
        /\ playerData[r1] = playerData[r2]
        /\ TextureFellBack(r1) <=> TextureFellBack(r2)
        /\ random[r1] = random[r2]) =>
         result[r1] = result[r2]
  /\ \A r \in Renders :
       pc[r] = "done" =>
         result[r] = SoloResult(playerData[r], CARD_DIMENSIONS,
                                ~TextureFellBack(r), random[r])

C6_Witness ==
  /\ pc[1] = "done" /\ pc[2] = "done"
  /\ playerData[1] = playerData[2]
  /\ TextureFellBack(1) <=> TextureFellBack(2)
  /\ random[1] = random[2]
  /\ result[1] = result[2]
  /\ result[1] # NoResult
  /\ Len(result[1].frontDataUri.pixels) > 0

-----------------------------------------------------------------------------
(* C7 *)

\* C7: in every mode of operation, a step of a render, from the construction
\* of its generator to the return of generateCard, writes no ambient state
\* (window, document) and nothing that belongs to another render.
C7_OnlyOwnSurfacesWritten ==
  [][\A r \in Renders :
       pc'[r] # pc[r] =>
         /\ debugCanvases' = debugCanvases
         /\ debugDom' = debugDom
         /\ \A q \in Renders \ {r} :
              /\ frontCanvas'[q] = frontCanvas[q]
              /\ backCanvas'[q] = backCanvas[q]
              /\ result'[q] = result[q]
              /\ playerStats'[q] = playerStats[q]]_vars

-----------------------------------------------------------------------------
(* C8 *)

-----------------------------------------------------------------------------
(* C9 *)

\* C9: whenever the photo is drawn, for a source of positive width and height
\* and a target box (a box has non-negative width and height), the draw
\* rectangle covers the box on both axes, keeps the source aspect ratio
\* (drawWidth x sourceHeight = drawHeight x sourceWidth), and the axis on which
\* it overflows is centred on the box while the other starts at the box.
C9_CoverFit ==
  \A r \in Renders :
    \A o \in Ops(frontCanvas[r]) :
      LET photo == playerData[r].playerPhotoDataUri
          b == PlayerImageTargetBox(CARD_DIMENSIONS)
      IN  (o.what = "playerPhoto" /\ b.w >= 0 /\ b.h >= 0) =>
            /\ photo.width > 0 /\ photo.height > 0
            /\ o.x <= b.x * o.den
            /\ o.y <= b.y * o.den
            /\ o.x + o.w >= (b.x + b.w) * o.den
            /\ o.y + o.h >= (b.y + b.h) * o.den
            /\ o.w * photo.height = o.h * photo.width
            /\ 2 * o.x + o.w = (2 * b.x + b.w) * o.den
            /\ 2 * o.y + o.h = (2 * b.y + b.h) * o.den
            /\ o.w = b.w * o.den \/ o.h = b.h * o.den

C9_Witness ==
  \E r \in Renders :
    \E o \in Ops(frontCanvas[r]) :
      LET b == PlayerImageTargetBox(CARD_DIMENSIONS)
      IN  /\ o.what = "playerPhoto"
          /\ b.w > 0 /\ b.h > 0
          /\ o.w > b.w * o.den
          /\ o.x < b.x * o.den
          /\ o.h = b.h * o.den

-----------------------------------------------------------------------------
(* C10 *)

\* C10: whenever the emblem is drawn, the longer side of its draw rectangle
\* (the side matching the logo's longer side) equals the diameter of the clip
\* circle exactly, the other side is at most the diameter, the source aspect
\* ratio is kept, and the rectangle is centred on the circle's centre.
C10_ContainFit ==
  \A r \in Renders :
    \A o \in Ops(frontCanvas[r]) :
      o.what = "teamLogo" =>
        LET logo == playerData[r].teamLogoDataUri
            k == TeamLogoCircle(CARD_DIMENSIONS)
            diameter == 2 * k.r * o.den
        IN  /\ Max(o.w, o.h) = diameter
            /\ Min(o.w, o.h) <= diameter
            /\ logo.width >= logo.height => o.w = diameter
            /\ logo.height >= logo.width => o.h = diameter
            /\ o.w * logo.height = o.h * logo.width
            /\ 2 * o.x + o.w = 2 * k.cx * o.den
            /\ 2 * o.y + o.h = 2 * k.cy * o.den

C10_Witness ==
  \E r \in Renders :
    /\ pc[r] = "done"
    /\ playerData[r].teamLogoDataUri.width > playerData[r].teamLogoDataUri.height
    /\ \E o \in Ops(frontCanvas[r]) :
         o.what = "teamLogo" /\ o.w > o.h /\ o.h > 0

-----------------------------------------------------------------------------
(* C11 *)

Abs(n) == IF n < 0 THEN -n ELSE n

RECURSIVE GCD(_, _)
GCD(a, b) == IF b = 0 THEN a ELSE GCD(b, a % b)

\* the four corners of a draw rectangle, in the rectangle's own units
Corners(o) ==
  {<<o.x, o.y>>, <<o.x + o.w, o.y>>, <<o.x, o.y + o.h>>, <<o.x + o.w, o.y + o.h>>}

\* the point p, in units of 1/den, is inside or on the circle k; the three
\* lengths are divided by their common divisor before they are squared
InsideCircle(p, k, den) ==
  LET dx == Abs(p[1] - k.cx * den)
      dy == Abs(p[2] - k.cy * den)
      radius == k.r * den
      g == GCD(GCD(dx, dy), radius)
  IN  \/ g = 0
      \/ (dx \div g) * (dx \div g) + (dy \div g) * (dy \div g)
           <= (radius \div g) * (radius \div g)

\* C11: whenever the emblem is drawn, all four corners of its contain-fit draw
\* rectangle lie inside the circular clip region in force for that draw, so
\* that no part of the emblem is cropped.
C11_EmblemWhollyVisible ==
  \A r \in Renders :
    \A o \in Ops(frontCanvas[r]) :
      (o.what = "teamLogo" /\ o.clip = "logoCircle") =>
        \A p \in Corners(o) : InsideCircle(p, TeamLogoCircle(CARD_DIMENSIONS), o.den)

-----------------------------------------------------------------------------
(* C12 *)

\* the candidate sizes of the search: the estimate minus a whole number of
\* pixels, as long as that is above the floor
Candidates(estimate) ==
  {size \in {estimate - Px(k) : k \in 0..(estimate \div Px(1))} :
     size > Px(MinPlayerNameFontSize)}

Fits(name, size, maxWidth, maxHeight) ==
  /\ MeasureTextWidth(name, size) <= maxWidth
  /\ MeasureTextHeight(name, size) <= maxHeight

LargestFitting(name, estimate, maxWidth, maxHeight) ==
  LET fitting == {size \in Candidates(estimate) :
                    Fits(name, size, maxWidth, maxHeight)}
  IN  IF fitting = {} THEN Px(MinPlayerNameFontSize)
      ELSE CHOOSE size \in fitting : \A other \in fitting : other <= size

-----------------------------------------------------------------------------
(* C13 *)

-----------------------------------------------------------------------------
(* C14 *)

\* the words of a text: its maximal runs of characters that are not whitespace
WordsOf(text) ==
  SelectSeq(Split(Join(Split(text, "\n"), " "), " "), LAMBDA word : word # "")

\* runs of whitespace collapsed to one space, leading and trailing whitespace
\* removed
NormalizeWhitespace(text) == Join(WordsOf(text), " ")

\* C14: for every text and max width, the lines returned by wrapText joined
\* with single spaces are the text with its whitespace normalized.
C14_WrapRoundTrip ==
  call.fn = "wrapText" =>
    Join(call.lines, " ") = NormalizeWhitespace(call.text)

-----------------------------------------------------------------------------
(* C15 *)

\* a line made of a label, a colon and a space, and a value
IsLabelValue(line) ==
  \E i \in 2..(Len(line) - 2) : SubSeq(line, i, i + 1) = ": "

\* C15: for every valid PlayerData, the stats text returned by generateCard is
\* exactly five "Label: Value" lines followed by bio text that is not empty.
C15_FiveLinesThenBio ==
  \A r \in Renders :
    (pc[r] = "done" /\ ValidInput(playerData[r])) =>
      LET lines == Split(result[r].playerStats, "\n")
      IN  /\ Len(lines) > 5
          /\ \A i \in 1..5 : IsLabelValue(lines[i])
          /\ ~IsLabelValue(lines[6])
          /\ Trim(Join(SubSeq(lines, 6, Len(lines)), "\n")) # ""

-----------------------------------------------------------------------------
(* C16 *)

\* the line is the label followed by a number of the range, written in decimal
NumberIn(line, label, low, high) ==
  \E n \in low..high : line = label \o ToString(n)

WithinRanges(stats) ==
  LET lines == Split(stats, "\n")
  IN  /\ Len(lines) = 6
      /\ NumberIn(lines[1], "Games Played: ", 15, 34)
      /\ NumberIn(lines[2], "Batting Average: .", 200, 500)
      /\ Len(lines[2]) = Len("Batting Average: .") + 3
      /\ NumberIn(lines[3], "Home Runs: ", 2, 9)
      /\ NumberIn(lines[4], "RBIs: ", 10, 34)
      /\ NumberIn(lines[5], "Stolen Bases: ", 3, 12)
      /\ NumberIn(lines[6], "Fielding %: .", 900, 999)

\* C16: whatever the random source returns, every stats block has its batting
\* average within .200-.500 in three digits, its home runs within 2-9 and its
\* other fields within their ranges; the block of one call is decided by that
\* call's own draws, whatever another call drew.
C16_StatsWithinRanges ==
  call.fn = "generatePlayerStats" =>
    /\ WithinRanges(call.stats)
    /\ \A i \in 1..Len(call.other) :
         /\ WithinRanges(call.other[i].stats)
         /\ call.other[i].tape = call.tape <=> call.other[i].stats = call.stats

\* one call drew the least of every range and another call the greatest
C16_Witness ==
  /\ call.fn = "generatePlayerStats"
  /\ Split(call.stats, "\n") =
       <<"Games Played: 15", "Batting Average: .200", "Home Runs: 2",
         "RBIs: 10", "Stolen Bases: 3", "Fielding %: .900">>
  /\ Len(call.other) = 1
  /\ Split(call.other[1].stats, "\n") =
       <<"Games Played: 34", "Batting Average: .499", "Home Runs: 9",
         "RBIs: 34", "Stolen Bases: 12", "Fielding %: .999">>

-----------------------------------------------------------------------------
(* C17 *)

\* what layer 1 paints for the data in the given style: the base colour, then
\* the texture under its opacity and blend mode, or the gradient
BackgroundOf(data, style, d, textureLoaded) ==
  RenderBaseBackground(CreateCanvas(d), [data EXCEPT !.style = style], d,
                       textureLoaded).ops

\* C17: the background a render has painted is the one of its style, and the
\* same PlayerData in any other style of the enumeration gets a background
\* with different parameters (base colour, opacity and blend mode of the
\* texture when it loaded, gradient when it did not).
C17_StylesDifferByPalette ==
  \A r \in Renders :
    LayerEnded(r, "layer1") =>
      LET data == playerData[r]
          own == BackgroundOf(data, data.style, CARD_DIMENSIONS,
                              ~TextureFellBack(r))
      IN  /\ IsPrefix(own, frontCanvas[r].ops)
          /\ \A style \in Styles \ {data.style} :
               BackgroundOf(data, style, CARD_DIMENSIONS, ~TextureFellBack(r))
                 # own

-----------------------------------------------------------------------------
(* C18 *)

RequiredMessages ==
  {"Player name is required.", "Player photo is required.",
   "Team logo is required."}

\* the first of name, player photo, team logo that the input lacks
FirstMissing(cardData) ==
  IF Trim(cardData.playerName) = "" THEN "name"
  ELSE IF cardData.playerPhotoDataUri = "" THEN "photo"
  ELSE IF cardData.teamLogoDataUri = "" THEN "logo"
  ELSE "none"

MessageNaming(field) ==
  CASE field = "name" -> "Player name is required."
    [] field = "photo" -> "Player photo is required."
    [] field = "logo" -> "Team logo is required."

\* C18: once a server action has checked its input, if the name (trimmed),
\* the player photo or the team logo is missing it has returned cards null
\* with the error naming the first missing one of them, in that order, and
\* has called neither the background removal, nor the reference images, nor
\* a generation; if none is missing it never returns one of the three errors.
C18_RequiredFieldsCheckedInOrder ==
  (serverAction.name \in ServerActions /\ serverAction.pc # "validate") =>
    LET field == FirstMissing(serverAction.cardData)
    IN  /\ field # "none" =>
             /\ serverAction.pc = "returned"
             /\ serverAction.result =
                  [cardsNull |-> TRUE, cards |-> <<>>,
                   error |-> MessageNaming(field)]
             /\ serverAction.effects = <<>>
        /\ field = "none" => serverAction.result.error \notin RequiredMessages

\* an input with a name and neither photo nor emblem has got the photo's error
C18_Witness ==
  /\ serverAction.name \in ServerActions
  /\ serverAction.pc = "returned"
  /\ Trim(serverAction.cardData.playerName) # ""
  /\ serverAction.cardData.playerPhotoDataUri = ""
  /\ serverAction.cardData.teamLogoDataUri = ""
  /\ serverAction.result.error = "Player photo is required."

-----------------------------------------------------------------------------
(* C19 *)

\* C19: whatever style is requested, or none, the three variations that
\* createEnhancedBaseballCardsAction generates have pairwise distinct styles.
C19_EnhancedStylesPairwiseDistinct ==
  (serverAction.name = "enhanced" /\ serverAction.generated # <<>>) =>
    /\ Len(serverAction.generated) = 3
    /\ \A i, j \in 1..3 :
         i # j => serverAction.generated[i] # serverAction.generated[j]

-----------------------------------------------------------------------------
(* C20 *)

Geometry(o) == [x |-> o.x, y |-> o.y, w |-> o.w, h |-> o.h, den |-> o.den]

\* the container a layer has filled with the given path has the geometry g
ContainerPainted(r, kind, g) ==
  \E o \in Ops(frontCanvas[r]) : o.op = kind /\ Geometry(o) = g

\* C20: the box the photo layer clips to and targets is the box the image
\* container was painted with, the info box of the text layer is the box the
\* info container was painted with, and the circle the emblem layer clips to
\* has the centre and the radius of the circle the emblem container was
\* painted with.
C20_LayersDeriveSameRegions ==
  \A r \in Renders :
    /\ LayerEnded(r, "layer5") =>
         ContainerPainted(r, "fillPath", Rect(PlayerImageTargetBox(CARD_DIMENSIONS)))
    /\ LayerEnded(r, "layer7") =>
         ContainerPainted(r, "fillPath", Rect(InfoTextBox(CARD_DIMENSIONS)))
    /\ LayerEnded(r, "layer6") =>
         ContainerPainted(r, "fillArc", Disc(TeamLogoCircle(CARD_DIMENSIONS)))

-----------------------------------------------------------------------------
(* C21 *)

\* C21: the circle layer 4 has painted has the centre of emblemBox, and its
\* leftmost, rightmost, topmost and bottommost points lie within emblemBox and
\* so within the safe-margin inset rectangle.
C21_EmblemPanelInscribed ==
  \A r \in Renders :
    \A o \in Ops(frontCanvas[r]) :
      (o.op \in {"fillArc", "strokeArc"} /\ o.what = "circle") =>
        LET b == LogoContainerBox(CARD_DIMENSIONS)
            inset == InnerBox(CARD_DIMENSIONS)
            radius == o.w
        IN  /\ 2 * o.x = 2 * b.x + b.w
            /\ 2 * o.y = 2 * b.y + b.h
            /\ b.x <= o.x - radius /\ o.x + radius <= b.x + b.w
            /\ b.y <= o.y - radius /\ o.y + radius <= b.y + b.h
            /\ inset.x <= o.x - radius /\ o.x + radius <= inset.x + inset.w
            /\ inset.y <= o.y - radius /\ o.y + radius <= inset.y + inset.h

-----------------------------------------------------------------------------
(* C22 *)

Range(f) == {f[i] : i \in DOMAIN f}

\* C22: of the lines wrapText returns, every line of two or more words
\* measures at most the max width; a line ends only where the next word would
\* have made it wider than the max width; and a word wider than the max width
\* is a line of its own, whole.
C22_GreedyWrap ==
  call.fn = "wrapText" =>
    LET lines == call.lines
        Width(line) == MeasureTextWidth(line, Px(16))
    IN  /\ \A i \in 1..Len(lines) :
             Len(Split(lines[i], " ")) >= 2 => Width(lines[i]) <= call.maxWidth
        /\ \A i \in 1..(Len(lines) - 1) :
             Width(lines[i] \o " " \o Split(lines[i + 1], " ")[1]) > call.maxWidth
        /\ \A word \in {w \in Range(WordsOf(call.text)) : Width(w) > call.maxWidth} :
             \E i \in 1..Len(lines) : lines[i] = word

\* a text wrapped into a line of two words, and a word wider than the max
\* width on a line of its own
C22_Witness ==
  /\ call.fn = "wrapText"
  /\ \E i \in 1..Len(call.lines) :
       /\ Len(Split(call.lines[i], " ")) >= 2
       /\ i < Len(call.lines)
  /\ \E i \in 1..Len(call.lines) :
       /\ MeasureTextWidth(call.lines[i], Px(16)) > call.maxWidth
       /\ Len(Split(call.lines[i], " ")) = 1

-----------------------------------------------------------------------------
(* C23 *)

\* the text lines painted on a surface, in painting order
TextLines(c) == SelectSeq(c.ops, LAMBDA o : o.op = "fillText")

\* the index of the first line of a sequence of painted lines that reads what
IndexOf(lines, what) ==
  IF \E i \in DOMAIN lines : lines[i].what = what
  THEN CHOOSE i \in DOMAIN lines :
         /\ lines[i].what = what
         /\ \A j \in DOMAIN lines : lines[j].what = what => i <= j
  ELSE 0

\* the biography lines painted by a buildBackCard call: those between the
\* 'Biography' and 'Season Stats' headings
BioLinesPainted(lines) ==
  LET b == IndexOf(lines, "Biography")
      s == IndexOf(lines, "Season Stats")
  IN  IF b = 0 THEN <<>> ELSE [i \in 1..(s - b - 1) |-> lines[b + i].what]

\* the stats lines painted by a buildBackCard call: those after 'Season Stats'
StatLinesPainted(lines) ==
  LET s == IndexOf(lines, "Season Stats")
  IN  [i \in 1..(Len(lines) - s) |-> lines[s + i]]

\* C23: on the back face the biography lines painted are the first 6 wrapped
\* lines of the biography (all of them when there are fewer), at most 8 stats
\* lines are painted, no two painted lines have the same vertical position,
\* and every painted line, the last included, lies within the card height
C23_BackFaceCaps ==
  call.fn = "buildBackCard" =>
    LET lines == TextLines(call.canvas)
        wrapped == WrapText(Px(16), call.playerData.bio, Px(CARD_DIMENSIONS.width - 120))
    IN  /\ BioLinesPainted(lines) = SubSeq(wrapped, 1, Min(6, Len(wrapped)))
        /\ Len(StatLinesPainted(lines)) <= 8
        /\ \A i, j \in DOMAIN lines : i # j => lines[i].y # lines[j].y
        /\ \A i \in DOMAIN lines :
             lines[i].y > 0 /\ lines[i].y <= Px(CARD_DIMENSIONS.height)

\* a biography that wraps to more than 6 lines was painted: 6 of its lines
\* and all the stats lines are on the back face
C23_Witness ==
  /\ call.fn = "buildBackCard"
  /\ Len(WrapText(Px(16), call.playerData.bio, Px(CARD_DIMENSIONS.width - 120))) > 6
  /\ Len(BioLinesPainted(TextLines(call.canvas))) = 6
  /\ Len(StatLinesPainted(TextLines(call.canvas))) = 6

-----------------------------------------------------------------------------
(* C24 *)

\* the same player with the position given or left out, the other way round
WithPositionToggled(data) ==
  [data EXCEPT !.position = IF @ = "" THEN "SS" ELSE ""]

\* C24: when a player has a "#cardNumber / year" line, the font it is
\* measured and drawn with (the font in force when the layer ends) is smaller
\* than the font the name was drawn with, and is the same font whether or not
\* the player has a position; a position line that is drawn is drawn at 18 px,
\* below the name's size
C24_SecondaryLinesAtFixedFonts ==
  (call.fn = "renderPlayerInformation" /\ Details(call.playerData) # <<>>) =>
    LET lines == TextLines(call.canvas)
        nameFont == lines[1].font
        other == RenderPlayerInformation(CreateCanvas(CARD_DIMENSIONS),
                                         WithPositionToggled(call.playerData),
                                         CARD_DIMENSIONS)
    IN  /\ call.canvas.ctx.font < nameFont
        /\ call.canvas.ctx.font = other.ctx.font
        /\ \A i \in DOMAIN lines :
             (i > 1 /\ lines[i].what = call.playerData.position) =>
               lines[i].font = Px(18) /\ lines[i].font < nameFont

-----------------------------------------------------------------------------
(* C25 *)

\* C25: in the result of a render, every line of the returned playerStats
\* (a label and its value) is one of the lines painted on the returned back
\* image
C25_PaintedStatsAreReturnedStats ==
  \A r \in Renders :
    result[r] # NoResult =>
      \A line \in Range(Split(result[r].playerStats, "\n")) :
        \E o \in Range(result[r].backDataUri.pixels) :
          o.op = "fillText" /\ o.what = line

-----------------------------------------------------------------------------
(* C26 *)

\* C26: between the layers of the front face, whether or not the image of a
\* layer loaded, the drawing state of the front surface is at its defaults:
\* opacity 1.0, composite mode source-over, no clip region in force and no
\* saved state left on the stack
C26_DrawingStateBackToDefaults ==
  \A r \in Renders :
    LET ctx == frontCanvas[FrontCtx(r)].ctx
    IN  /\ ctx.globalAlpha = 100
        /\ ctx.globalCompositeOperation = "source-over"
        /\ ctx.clip = "none"
        /\ ctx.stack = <<>>

\* all seven layers of a render ended: the texture was blended at a reduced
\* opacity in another composite mode, the inner shadow and the photo were
\* painted under a clip, the emblem failed to load, and the state is at its
\* defaults
C26_Witness ==
  \E r \in Renders :
    /\ LayerEnded(r, "layer7")
    /\ LogoFails(r)
    /\ \E o \in Ops(frontCanvas[FrontCtx(r)]) :
         o.globalAlpha < 100 /\ o.globalCompositeOperation # "source-over"
    /\ \E o \in Ops(frontCanvas[FrontCtx(r)]) : o.clip = "infoContainer"
    /\ \E o \in Ops(frontCanvas[FrontCtx(r)]) : o.clip = "imageContainer"
    /\ frontCanvas[FrontCtx(r)].ctx.globalAlpha = 100
    /\ frontCanvas[FrontCtx(r)].ctx.clip = "none"
    /\ frontCanvas[FrontCtx(r)].ctx.stack = <<>>

-----------------------------------------------------------------------------
(* C27 *)

\* C27: on the back face the 'Season Stats' heading and every stats line
\* after it are painted left-aligned at x = 60, with or without a biography
C27_StatsSectionLeftAligned ==
  \A r \in Renders :
    LET lines == TextLines(backCanvas[BackCtx(r)])
        s == IndexOf(lines, "Season Stats")
    IN  \A i \in DOMAIN lines :
          (s > 0 /\ i >= s) => lines[i].textAlign = "left" /\ lines[i].x = Px(60)

-----------------------------------------------------------------------------
(* C28 *)

\* the order in which removeBackground is to try the providers
FallbackOrder(preferredProvider) ==
  LET first == IF preferredProvider = "" THEN "withoutbg" ELSE preferredProvider
  IN  <<first>> \o SelectSeq(<<"photoroom", "mock">>, LAMBDA p : p # first)

\* the provider throws or reports failure for this request
ProviderFails(provider, outcome) ==
  provider # "mock" /\ outcome[provider] # "processed"

\* C28: the providers removeBackground called are the first ones of the order
\* preferred (default withoutbg), photoroom, mock, each once; all but the last
\* one called failed; the result is the successful result of the last one
\* called, or, with every provider called and failed, success = false with
\* provider 'none' and the error of the last provider; originalImageDataUri
\* is the input
C28_FirstSuccessfulProvider ==
  call.fn = "removeBackground" =>
    LET order == FallbackOrder(call.preferredProvider)
        called == call.called
        last == called[Len(called)]
    IN  /\ Len(called) >= 1
        /\ IsPrefix(called, order)
        /\ \A i, j \in DOMAIN called : i # j => called[i] # called[j]
        /\ \A i \in 1..(Len(called) - 1) : ProviderFails(called[i], call.outcome)
        /\ IF call.result.success
           THEN /\ ~ProviderFails(last, call.outcome)
                /\ call.result.provider = last
           ELSE /\ called = order
                /\ ProviderFails(last, call.outcome)
                /\ call.result.provider = "none"
                /\ call.result.error
                     = ProviderResult(last, call.imageDataUri, call.outcome).error
        /\ call.result.originalImageDataUri = call.imageDataUri

\* a call in which the default provider threw, the next one reported
\* failure, and the result is the third one's
C28_Witness ==
  /\ call.fn = "removeBackground"
  /\ call.preferredProvider = ""
  /\ call.called = <<"withoutbg", "photoroom", "mock">>
  /\ call.outcome["withoutbg"] = "noKey"
  /\ call.outcome["photoroom"] = "apiError"
  /\ call.result.success
  /\ call.result.provider = "mock"

-----------------------------------------------------------------------------
(* C29 *)

\* C29: once a run of generateCards has ended, isGenerating is false and
\* exactly one callback was invoked, once: onComplete, with the results of
\* the three renders in style order, when every render succeeded, and onError
\* otherwise; onError is never invoked once onComplete has been
C29_ExactlyOneCallback ==
  /\ BatchEnded =>
       /\ ~batch.isGenerating
       /\ Len(batch.onComplete) + Len(batch.onError) = 1
       /\ (\A i \in 1..Len(BatchStyles) : pc[i] = "done") =>
            /\ batch.onComplete = <<[i \in 1..Len(BatchStyles) |-> result[i]]>>
            /\ \A i \in 1..Len(BatchStyles) : playerData[i].style = BatchStyles[i]
       /\ (\E i \in 1..Len(BatchStyles) : pc[i] # "done") =>
            Len(batch.onError) = 1
  /\ batch.onComplete # <<>> => batch.onError = <<>>

-----------------------------------------------------------------------------
(* C30 *)

\* C30: the first variation of a batch is rendered in the style the user
\* requested: the first generator generateCards creates is given that style,
\* and the first style of a server action is the requested cardStyle
C30_RequestedStyleIsPrimary ==
  /\ batch.i >= 1 => playerData[1].style = batch.playerData.style
  /\ \A name \in ServerActions : \A cardStyle \in Styles :
       VariationStyle(name, cardStyle, 1) = cardStyle

=============================================================================
